---- MODULE Spec2Model ----
(***************************************************************************)
(* A model of the Star Trek game engine: the galaxy / quadrant / sector    *)
(* spatial model (game/galaxy.py), the ship state (game/enterprise.py),    *)
(* the combat functions (game/combat.py), the command handlers             *)
(* (game/commands.py) and the turn loop (startrek.py).                     *)
(*                                                                         *)
(* Numbers.  Python floats are modelled in fixed point:                    *)
(*   - sector positions and step vectors in units of 1/PosScale sector,    *)
(*   - warp factors, elapsed time and the stardate in 1/1000 (day),        *)
(*   - system damage values in 1/10000 day,                                *)
(*   - random multipliers in tenths, distances in 1/1000 sector.           *)
(* Random draws are read from the state of one seeded generator (rng): a   *)
(* game is determined by its seed, its starting sector and the player's    *)
(* input.  Rejection sampling of an empty sector follows a seeded stream   *)
(* of cells that visits every cell of the quadrant.                        *)
(***************************************************************************)
EXTENDS Integers, Sequences, FiniteSets, TLC

----------------------------------------------------------------------------
(* Program constants *)

GalaxySize == 8
SectorSize == 8
TorpedoSteps == 15
OverheatLimit == 1500
KlingonBaseEnergy == 300
KlingonEnergySpan == 300

(* Bounds of the model *)

MaxTurns == 2

(* Fixed-point scales: positions in 1/PosScale sector, distances in          *)
(* 1/DistScale sector, multipliers in 1/MulScale, time in 1/TimeScale day     *)
PosScale == 10 ^ 4
DistScale == 10 ^ 3
MulScale == 10 ^ 1
TimeScale == 10 ^ 3

----------------------------------------------------------------------------
(* Small sets the inputs and random draws are taken from *)

Seeds == {0, 1, 2, 3}
StartQuadrants == {<<0, 0>>}
StartSectors == {<<1, 0>>, <<4, 4>>}
Stardates == {2000000}
TimeLimits == {25000}

Idx == 0 .. (GalaxySize - 1)
Quads == Idx \X Idx
SIdx == 0 .. (SectorSize - 1)
Cells == SIdx \X SIdx

ShipSystem == {"WARP_ENGINES", "SHORT_RANGE_SENSORS", "LONG_RANGE_SENSORS",
               "PHASER_CONTROL", "PHOTON_TUBES", "DAMAGE_CONTROL",
               "SHIELD_CONTROL", "LIBRARY_COMPUTER"}

None == <<>>

\* What the player types: courses and directions in tenths, warp factors in
\* 1/WarpScale, energies in units
Courses == {0, 10, 30, 50, 70, 80, 90, 100}
Directions == {0, 10, 20, 30, 40, 50, 60, 70, 80, 90, 100}
Warps == {-1000, 0, 10, 125, 1000, 8000, 9000}
PhaserInputs == {0, 75, 100, 1600, 3000, 5000}
ShieldInputs == {-200, -100, 0, 100, 3000, 4000}
ComputerFunctions == {1, 9}

----------------------------------------------------------------------------
(* Arithmetic helpers *)

Abs(x) == IF x < 0 THEN -x ELSE x

Min(a, b) == IF a < b THEN a ELSE b

Max(a, b) == IF a > b THEN a ELSE b

\* math.sqrt, as the integer floor of the square root (bisection:
\* lo * lo <= n < hi * hi throughout)
RECURSIVE SqrtBetween(_, _, _)
SqrtBetween(n, lo, hi) ==
    IF hi - lo <= 1 THEN lo
    ELSE LET mid == (lo + hi) \div 2
         IN  IF mid * mid <= n THEN SqrtBetween(n, mid, hi)
             ELSE SqrtBetween(n, lo, mid)

ISqrt(n) == SqrtBetween(n, 0, 46340)

\* int(round(x)) of a fixed-point number x (scale s): round half to even
RoundFix(x, s) ==
    LET f == x \div s
        rem == x - f * s
    IN  IF 2 * rem > s THEN f + 1
        ELSE IF 2 * rem < s THEN f
        ELSE IF f % 2 = 0 THEN f ELSE f + 1

RECURSIVE SumSeq(_)
SumSeq(s) == IF s = <<>> THEN 0 ELSE Head(s) + SumSeq(Tail(s))

----------------------------------------------------------------------------
(* The random stream.  The game draws from one pseudo-random generator,    *)
(* so a game is determined by the generator's state and the player's input. *)
(* The state is a number s in 0 .. StreamPeriod - 1; an operation that      *)
(* draws reads its values from the state and leaves the next state behind.  *)
(* Stream(s, i) is the i-th cell drawn by _find_empty_sector in state s;    *)
(* every cell of the quadrant occurs among the first NumCells draws.        *)

StreamPeriod == 2 ^ 4

\* The generator's state after n more draws
AfterDraws(s, n) == (s + n) % StreamPeriod

\* Draws taken by the placement of a ship, by a volley of phasers and by one
\* hostile's shot
PlacementDraws == 2 + 3

PhaserDraws == 2 + 1

ShotDraws == 2 - 1

NumCells == SectorSize * SectorSize

StreamStart(s) ==
    CASE s % 4 = 0 -> 0
      [] s % 4 = 1 -> 51
      [] s % 4 = 2 -> 24
      [] s % 4 = 3 -> 40

StreamStep(s) ==
    CASE s % 4 = 0 -> 9
      [] s % 4 = 1 -> 17
      [] s % 4 = 2 -> 1
      [] s % 4 = 3 -> 7

Stream(s, i) ==
    LET n == (StreamStart(s) + i * StreamStep(s)) % NumCells
    IN  <<n \div SectorSize, n % SectorSize>>

\* random.uniform(0.5, 1.0) of a hostile's shot, in 1/MulScale
AttackFactor(s) == 5 + ((3 * s) % 6)

\* random.uniform(2.0, 3.0) of the phaser hit on the i-th hostile, in
\* 1/MulScale
PhaserFactor(s, i) == 20 + ((7 * s + 5 * i) % 11)

\* random.random() of the overheat draw, in 1/RollScale
OverheatRoll(s) == (s * 333) % 1000

SystemOrder == <<"WARP_ENGINES", "SHORT_RANGE_SENSORS", "LONG_RANGE_SENSORS",
                 "PHASER_CONTROL", "PHOTON_TUBES", "DAMAGE_CONTROL",
                 "SHIELD_CONTROL", "LIBRARY_COMPUTER">>

\* The 60% draw of apply_damage, random.choice(list(ShipSystem)) and
\* random.uniform(-0.5, -3.0) in 1/DamageScale day
SystemRoll(s) ==
    IF s % 6 # 4
    THEN [system |-> SystemOrder[((s + 3) % 8) + 1],
          amount |-> -(5000 + ((s * 9000) % 25001))]
    ELSE [system |-> "NONE", amount |-> 0]

\* Klingon.__post_init__: 300 + random.randint(0, 299)
KlingonEnergyDraw(s, k) ==
    KlingonBaseEnergy + (((s - 1) * 299 + (k - 1) * 150) % KlingonEnergySpan)

----------------------------------------------------------------------------
(* game/galaxy.py: Quadrant *)

EmptyMap == [cell \in Cells |-> "EMPTY"]

NewQuadrant(k, b, st) ==
    [klingons |-> k, starbases |-> b, stars |-> st, scanned |-> FALSE,
     sector_map |-> <<>>, klingon_ships |-> <<>>, starbase_pos |-> None,
     star_positions |-> <<>>]

HasMap(q) == q.sector_map # <<>>

get_lrs_value(q) == q.klingons * 100 + q.starbases * 10 + q.stars

\* Quadrant._find_empty_sector: draw cells until one is EMPTY
RECURSIVE FirstEmpty(_, _, _)
FirstEmpty(map, s, i) ==
    IF map[Stream(s, i)] = "EMPTY" THEN Stream(s, i)
    ELSE FirstEmpty(map, s, i + 1)

find_empty_sector(map, s) == FirstEmpty(map, s, 1)

RECURSIVE PlaceKlingons(_, _, _)
PlaceKlingons(q, k, s) ==
    IF k > q.klingons THEN q
    ELSE LET cell == find_empty_sector(q.sector_map, s)
             ship == [sector_row |-> cell[1], sector_col |-> cell[2],
                      energy |-> KlingonEnergyDraw(s, k)]
         IN  PlaceKlingons([q EXCEPT !.sector_map[cell] = "KLINGON",
                                     !.klingon_ships = Append(@, ship)],
                           k + 1, s)

PlaceStarbase(q, s) ==
    IF q.starbases > 0
    THEN LET cell == find_empty_sector(q.sector_map, s)
         IN  [q EXCEPT !.sector_map[cell] = "STARBASE", !.starbase_pos = cell]
    ELSE q

RECURSIVE PlaceStars(_, _, _)
PlaceStars(q, k, s) ==
    IF k > q.stars THEN q
    ELSE LET cell == find_empty_sector(q.sector_map, s)
         IN  PlaceStars([q EXCEPT !.sector_map[cell] = "STAR",
                                  !.star_positions = Append(@, cell)],
                        k + 1, s)

\* A variant of ClearedQuadrant that keeps the list of stars
ClearedQuadrant_keeps_stars(q) ==
    [q EXCEPT !.sector_map = EmptyMap, !.klingon_ships = <<>>,
              !.starbase_pos = None]

ClearedQuadrant(q) ==
    [q EXCEPT !.sector_map = EmptyMap, !.klingon_ships = <<>>,
              !.star_positions = <<>>, !.starbase_pos = None]

initialize_sector_map(q, s) ==
    PlaceStars(PlaceStarbase(PlaceKlingons(ClearedQuadrant(q), 1, s), s), 1, s)

\* Quadrant.place_enterprise: the quadrant afterwards and the cell used
PlaceCell(q, cell, s) ==
    IF q.sector_map[cell] # "EMPTY" THEN find_empty_sector(q.sector_map, s)
    ELSE cell

place_enterprise(q, cell, s) ==
    LET q1 == IF HasMap(q) THEN q ELSE initialize_sector_map(q, s)
    IN  [q1 EXCEPT !.sector_map[PlaceCell(q1, cell, s)] = "ENTERPRISE"]

\* A variant of place_enterprise_cell that reports the cell asked for
place_enterprise_cell_as_asked(q, cell, s) == cell

place_enterprise_cell(q, cell, s) ==
    LET q1 == IF HasMap(q) THEN q ELSE initialize_sector_map(q, s)
    IN  PlaceCell(q1, cell, s)

\* A variant of remove_enterprise that leaves the map as it is
remove_enterprise_skipped(q, cell) == q

remove_enterprise(q, cell) ==
    IF HasMap(q) /\ cell \in Cells /\ q.sector_map[cell] = "ENTERPRISE"
    THEN [q EXCEPT !.sector_map[cell] = "EMPTY"]
    ELSE q

IsAt(k, cell) == k.sector_row = cell[1] /\ k.sector_col = cell[2]

remove_klingon(q, cell) ==
    IF q.sector_map[cell] = "KLINGON"
    THEN [q EXCEPT !.sector_map[cell] = "EMPTY",
                   !.klingon_ships = SelectSeq(@, LAMBDA k : ~IsAt(k, cell)),
                   !.klingons = @ - 1]
    ELSE q

get_entity_at(q, cell) ==
    IF HasMap(q) /\ cell \in Cells THEN q.sector_map[cell] ELSE "EMPTY"

\* A variant of is_adjacent_to_starbase that leaves the diagonals out
is_adjacent_to_starbase_orthogonal(q, cell) ==
    IF q.starbase_pos = None THEN FALSE
    ELSE Abs(cell[1] - q.starbase_pos[1]) + Abs(cell[2] - q.starbase_pos[2]) <= 1

is_adjacent_to_starbase(q, cell) ==
    IF q.starbase_pos = None THEN FALSE
    ELSE /\ Abs(cell[1] - q.starbase_pos[1]) <= 1
         /\ Abs(cell[2] - q.starbase_pos[2]) <= 1

----------------------------------------------------------------------------
(* game/enterprise.py: Enterprise *)

NewEnterprise ==
    [quadrant_row |-> 0, quadrant_col |-> 0, sector_row |-> 0, sector_col |-> 0,
     energy |-> 3000, max_energy |-> 3000, torpedoes |-> 10,
     max_torpedoes |-> 10, shields |-> 0, docked |-> FALSE,
     destroyed |-> FALSE, damage |-> [sys \in ShipSystem |-> 0]]

\* A variant of dock that leaves the shields up
dock_shields_kept(e) ==
    [e EXCEPT !.docked = TRUE, !.energy = e.max_energy,
              !.torpedoes = e.max_torpedoes]

dock(e) ==
    [e EXCEPT !.docked = TRUE, !.energy = e.max_energy,
              !.torpedoes = e.max_torpedoes, !.shields = 0]

undock(e) == [e EXCEPT !.docked = FALSE]

repair_all(e) == [e EXCEPT !.damage = [sys \in ShipSystem |-> 0]]

is_system_damaged(e, sys) == e.damage[sys] < 0

\* A variant of get_condition that looks at the hostiles first
get_condition_hostiles_first(e, klingons_in_quadrant) ==
    IF klingons_in_quadrant > 0 THEN "RED"
    ELSE IF e.docked THEN "DOCKED"
    ELSE IF 10 * e.energy < e.max_energy THEN "YELLOW"
    ELSE "GREEN"

\* Enterprise.get_condition; energy < max_energy * 0.1 in whole units
get_condition(e, klingons_in_quadrant) ==
    IF e.docked THEN "DOCKED"
    ELSE IF klingons_in_quadrant > 0 THEN "RED"
    ELSE IF 10 * e.energy < e.max_energy THEN "YELLOW"
    ELSE "GREEN"

\* System damage values are kept in 1/DamageScale day.
DamageScale == 10 ^ 4

\* Enterprise.apply_damage.  roll is the outcome of the 60% draw: NoRoll, or
\* the system chosen and the (negative) amount drawn for it.
NoRoll == [system |-> "NONE", amount |-> 0]

\* A variant of AbsorbShields that passes the whole amount on when the
\* shields give way
AbsorbShields_whole_amount(e, amount) ==
    IF e.shields > 0
    THEN IF e.shields >= amount
         THEN [ship |-> [e EXCEPT !.shields = @ - amount], left |-> 0]
         ELSE [ship |-> [e EXCEPT !.shields = 0], left |-> amount]
    ELSE [ship |-> e, left |-> amount]

AbsorbShields(e, amount) ==
    IF e.shields > 0
    THEN IF e.shields >= amount
         THEN [ship |-> [e EXCEPT !.shields = @ - amount], left |-> 0]
         ELSE [ship |-> [e EXCEPT !.shields = 0], left |-> amount - e.shields]
    ELSE [ship |-> e, left |-> amount]

HitEnergy(e, amount, roll) ==
    IF amount > 0
    THEN LET e1 == [e EXCEPT !.energy = @ - amount]
         IN  IF roll = NoRoll THEN e1
             ELSE [e1 EXCEPT !.damage[roll.system] = @ + roll.amount]
    ELSE e

CheckDestroyed(e) ==
    IF e.energy <= 0 THEN [e EXCEPT !.destroyed = TRUE] ELSE e

apply_damage(e, amount, roll) ==
    LET a == AbsorbShields(e, amount)
    IN  CheckDestroyed(HitEnergy(a.ship, a.left, roll))

\* Enterprise.repair_systems; time_elapsed in 1/TimeScale day.  The rate is
\* 1.0 when docked and 0.1 otherwise, kept here in tenths.
\* A variant of RepairRate that ignores docking
RepairRate_undocked(e) == 1

RepairRate(e) == IF e.docked THEN 10 ELSE 1

RepairStep(e, time_elapsed) ==
    (RepairRate(e) * time_elapsed * (DamageScale \div TimeScale)) \div 10

\* Enterprise.repair_systems: the systems returned as repaired
repair_systems_returns(e, time_elapsed) ==
    {sys \in ShipSystem :
        /\ e.damage[sys] < 0
        /\ e.damage[sys] + RepairStep(e, time_elapsed) >= 0}

\* Enterprise.repair_systems: the ship afterwards
repair_systems(e, time_elapsed) ==
    [e EXCEPT !.damage =
        [sys \in ShipSystem |->
            IF e.damage[sys] < 0
            THEN IF e.damage[sys] + RepairStep(e, time_elapsed) >= 0 THEN 0
                 ELSE e.damage[sys] + RepairStep(e, time_elapsed)
            ELSE e.damage[sys]]]

use_energy(e, amount) ==
    IF e.energy >= amount THEN [e EXCEPT !.energy = @ - amount] ELSE e

\* Enterprise.transfer_to_shields: the value returned
transfer_to_shields_returns(e, amount) == amount < 0 \/ amount <= e.energy

\* Enterprise.transfer_to_shields: the ship afterwards
transfer_to_shields(e, amount) ==
    IF amount < 0
    THEN LET transfer == Min(-amount, e.shields)
         IN  [e EXCEPT !.shields = @ - transfer, !.energy = @ + transfer]
    ELSE IF amount <= e.energy
         THEN [e EXCEPT !.energy = @ - amount, !.shields = @ + amount]
         ELSE e

\* A variant of Enterprise_fire_torpedo that keeps the count
Enterprise_fire_torpedo_kept(e) == e

Enterprise_fire_torpedo(e) ==
    IF e.torpedoes > 0 THEN [e EXCEPT !.torpedoes = @ - 1] ELSE e

set_position(e, quad, cell) ==
    [e EXCEPT !.quadrant_row = quad[1], !.quadrant_col = quad[2],
              !.sector_row = cell[1], !.sector_col = cell[2]]

ShipQuad(e) == <<e.quadrant_row, e.quadrant_col>>

ShipCell(e) == <<e.sector_row, e.sector_col>>

can_warp(e) == ~is_system_damaged(e, "WARP_ENGINES")

can_use_srs(e) == ~is_system_damaged(e, "SHORT_RANGE_SENSORS")

can_use_lrs(e) == ~is_system_damaged(e, "LONG_RANGE_SENSORS")

can_fire_phasers(e) == ~is_system_damaged(e, "PHASER_CONTROL")

can_fire_torpedoes(e) == ~is_system_damaged(e, "PHOTON_TUBES")

can_use_shields(e) == ~is_system_damaged(e, "SHIELD_CONTROL")

can_use_computer(e) == ~is_system_damaged(e, "LIBRARY_COMPUTER")

----------------------------------------------------------------------------
(* game/combat.py *)

CombatResult(ok, msg, destroyed, dealt) ==
    [success |-> ok, message |-> msg, klingons_destroyed |-> destroyed,
     damage_dealt |-> dealt]

NoCombat == CombatResult(FALSE, "", 0, <<>>)

\* calculate_distance, in 1/DistScale sector
calculate_distance(a, b) ==
    ISqrt(((a[1] - b[1]) * (a[1] - b[1]) + (a[2] - b[2]) * (a[2] - b[2]))
          * DistScale * DistScale)

\* "if distance < 0.1: distance = 0.1"
ClampDistance(d) == IF 10 * d < DistScale THEN DistScale \div 10 ELSE d

KlingonCell(k) == <<k.sector_row, k.sector_col>>

\* The direction table of fire_torpedo and execute_nav
direction_deltas(d) ==
    CASE d = 1 -> <<0, 1>>
      [] d = 2 -> <<-1, 1>>
      [] d = 3 -> <<-1, 0>>
      [] d = 4 -> <<-1, -1>>
      [] d = 5 -> <<0, -1>>
      [] d = 6 -> <<1, -1>>
      [] d = 7 -> <<1, 0>>
      [] d = 8 -> <<1, 1>>
      [] d = 9 -> <<0, 1>>

\* A course or direction is given in tenths (35 is course 3.5).  The unit
\* step vector, in 1/PosScale sector: interpolate between the floor
\* direction and the next one by the fraction, then normalise.
StepVector(course10) ==
    LET base0 == course10 \div 10
        base == IF base0 = 9 THEN 1 ELSE base0
        frac == course10 - base0 * 10
        next == IF base < 8 THEN base + 1 ELSE 1
        d1 == direction_deltas(base)
        d2 == direction_deltas(next)
        dr == d1[1] * (10 - frac) + d2[1] * frac
        dc == d1[2] * (10 - frac) + d2[2] * frac
        mag == ISqrt((dr * dr + dc * dc) * DistScale * DistScale)
        Unit(x) == IF x >= 0 THEN (x * PosScale * DistScale) \div mag
                   ELSE -(((-x) * PosScale * DistScale) \div mag)
    IN  IF mag > 0 THEN <<Unit(dr), Unit(dc)>> ELSE <<0, 0>>

\* random.random() < (energy_amount - 1500) / 1500, the draw in 1/RollScale
RollScale == 10 ^ 3

Overheats(energy_amount, roll) ==
    /\ energy_amount > OverheatLimit
    /\ roll * OverheatLimit < (energy_amount - OverheatLimit) * RollScale

\* A variant of PhaserDamage that gives every target the whole amount
PhaserDamage_undivided(energy_amount, n, dist, u) ==
    (energy_amount * u * DistScale) \div (MulScale * dist)

\* int((energy_per_target / distance) * random_multiplier)
PhaserDamage(energy_amount, n, dist, u) ==
    (energy_amount * u * DistScale) \div (n * MulScale * dist)

PhaserHits(e, ships, energy_amount, us) ==
    [i \in 1 .. Len(ships) |->
        PhaserDamage(energy_amount, Len(ships),
                     ClampDistance(calculate_distance(ShipCell(e),
                                                      KlingonCell(ships[i]))),
                     us[i])]

\* The loop over the hostiles: a survivor loses the damage
DamagedShips(ships, hits) ==
    [i \in 1 .. Len(ships) |->
        IF hits[i] >= ships[i].energy THEN ships[i]
        ELSE [ships[i] EXCEPT !.energy = @ - hits[i]]]

RECURSIVE RemoveDestroyed(_, _, _, _)
RemoveDestroyed(q, ships, hits, i) ==
    IF i > Len(ships) THEN q
    ELSE RemoveDestroyed(IF hits[i] >= ships[i].energy
                         THEN remove_klingon(q, KlingonCell(ships[i]))
                         ELSE q,
                         ships, hits, i + 1)

DestroyedCount(ships, hits) ==
    Cardinality({i \in 1 .. Len(ships) : hits[i] >= ships[i].energy})

DamageDealt(ships, hits) ==
    [i \in 1 .. Len(ships) |->
        <<ships[i].sector_row, ships[i].sector_col, hits[i]>>]

\* fire_phasers: the ship, the quadrant and the result afterwards; raised is
\* TRUE when the overheat branch raises AttributeError (line 80 reads
\* enterprise.damage.__class__.PHASER_CONTROL, and dict has no such attribute)
fire_phasers(e, q, energy_amount, roll, us) ==
    LET ships == q.klingon_ships
        keep == [enterprise |-> e, quadrant |-> q, raised |-> FALSE]
    IN  IF ~can_fire_phasers(e)
        THEN keep @@
             [result |-> CombatResult(FALSE, "Phaser control is damaged!", 0, <<>>)]
        ELSE IF energy_amount <= 0
        THEN keep @@
             [result |-> CombatResult(FALSE, "Invalid phaser energy amount.", 0, <<>>)]
        ELSE IF energy_amount > e.energy
        THEN keep @@
             [result |-> CombatResult(FALSE, "Insufficient energy.", 0, <<>>)]
        ELSE IF ships = <<>>
        THEN keep @@
             [result |-> CombatResult(FALSE, "No Klingons in this quadrant!", 0, <<>>)]
        ELSE IF Overheats(energy_amount, roll)
        THEN [enterprise |-> use_energy(e, energy_amount), quadrant |-> q,
              raised |-> TRUE, result |-> NoCombat]
        ELSE LET hits == PhaserHits(e, ships, energy_amount, us)
                 q1 == [q EXCEPT !.klingon_ships = DamagedShips(ships, hits)]
             IN  [enterprise |-> use_energy(e, energy_amount),
                  quadrant |-> RemoveDestroyed(q1, ships, hits, 1),
                  raised |-> FALSE,
                  result |-> CombatResult(TRUE, "Phasers fired.",
                                          DestroyedCount(ships, hits),
                                          DamageDealt(ships, hits))]

\* The flight of a torpedo: the first step (1 .. 15) whose rounded cell is
\* outside the quadrant or holds a KLINGON, STAR or STARBASE
TorpedoCell(e, vec, step) ==
    <<RoundFix(e.sector_row * PosScale + step * vec[1], PosScale),
      RoundFix(e.sector_col * PosScale + step * vec[2], PosScale)>>

\* A variant of TorpedoFlight that stars do not stop
RECURSIVE TorpedoFlight_past_stars(_, _, _, _)
TorpedoFlight_past_stars(e, q, vec, step) ==
    IF step > TorpedoSteps THEN [what |-> "NONE", cell |-> None]
    ELSE LET cell == TorpedoCell(e, vec, step)
         IN  IF cell \notin Cells THEN [what |-> "LEFT", cell |-> cell]
             ELSE IF get_entity_at(q, cell) \in {"KLINGON", "STARBASE"}
             THEN [what |-> get_entity_at(q, cell), cell |-> cell]
             ELSE TorpedoFlight_past_stars(e, q, vec, step + 1)

RECURSIVE TorpedoFlight(_, _, _, _)
TorpedoFlight(e, q, vec, step) ==
    IF step > TorpedoSteps THEN [what |-> "NONE", cell |-> None]
    ELSE LET cell == TorpedoCell(e, vec, step)
         IN  IF cell \notin Cells THEN [what |-> "LEFT", cell |-> cell]
             ELSE IF get_entity_at(q, cell) \in {"KLINGON", "STAR", "STARBASE"}
             THEN [what |-> get_entity_at(q, cell), cell |-> cell]
             ELSE TorpedoFlight(e, q, vec, step + 1)

\* A variant of StarbaseHit that forgets the cached position
StarbaseHit_keeps_pos(q, cell) ==
    [q EXCEPT !.starbases = 0, !.sector_map[cell] = "EMPTY"]

StarbaseHit(q, cell) ==
    [q EXCEPT !.starbases = 0, !.starbase_pos = None,
              !.sector_map[cell] = "EMPTY"]

\* fire_torpedo; direction10 is the direction in tenths
fire_torpedo(e, q, direction10) ==
    IF ~can_fire_torpedoes(e)
    THEN [enterprise |-> e, quadrant |-> q,
          result |-> CombatResult(FALSE, "Photon tubes are damaged!", 0, <<>>)]
    ELSE IF e.torpedoes <= 0
    THEN [enterprise |-> e, quadrant |-> q,
          result |-> CombatResult(FALSE, "No torpedoes remaining!", 0, <<>>)]
    ELSE IF direction10 < 10 \/ direction10 > 90
    THEN [enterprise |-> e, quadrant |-> q,
          result |-> CombatResult(FALSE, "Invalid direction. Use 1-9.", 0, <<>>)]
    ELSE LET e1 == Enterprise_fire_torpedo(e)
             hit == TorpedoFlight(e, q, StepVector(direction10), 1)
         IN  CASE hit.what = "KLINGON" ->
                    [enterprise |-> e1, quadrant |-> remove_klingon(q, hit.cell),
                     result |-> CombatResult(TRUE, "KLINGON DESTROYED!", 1, <<>>)]
               [] hit.what = "STAR" ->
                    [enterprise |-> e1, quadrant |-> q,
                     result |-> CombatResult(TRUE, "Torpedo impacted star.", 0, <<>>)]
               [] hit.what = "STARBASE" ->
                    [enterprise |-> e1, quadrant |-> StarbaseHit(q, hit.cell),
                     result |-> CombatResult(TRUE, "STARBASE DESTROYED!", 0, <<>>)]
               [] hit.what = "LEFT" ->
                    [enterprise |-> e1, quadrant |-> q,
                     result |-> CombatResult(TRUE, "Torpedo missed - left quadrant.", 0, <<>>)]
               [] OTHER ->
                    [enterprise |-> e1, quadrant |-> q,
                     result |-> CombatResult(TRUE, "Torpedo missed - no target hit.", 0, <<>>)]

\* klingon_attack: one hostile's shot,
\* int((klingon.energy / distance) * random_factor)
KlingonDamage(e, k, factor) ==
    (k.energy * factor * DistScale)
        \div (MulScale * ClampDistance(calculate_distance(ShipCell(e),
                                                          KlingonCell(k))))

----------------------------------------------------------------------------
(* The state of a game *)

VARIABLES
    quadrants,         \* Galaxy.quadrants: quadrant -> Quadrant
    total_klingons,    \* Galaxy.total_klingons
    total_starbases,   \* Galaxy.total_starbases
    initial_klingons,  \* Galaxy.initial_klingons
    stardate,          \* Galaxy.stardate, in 1/TimeScale day
    time_limit,        \* Galaxy.time_limit, in 1/TimeScale day
    enterprise,        \* the Enterprise
    pc,                \* where game_loop stands
    cmd,               \* the command token read this turn
    args,              \* the answers the command's handler read, in order
    result,            \* the CommandResult of this turn's command
    combat,            \* the CombatResult of this turn's weapon fire
    atk,               \* klingon_attack: index of the hostile to fire next
    turn,              \* commands executed so far
    lrs_data,          \* the grid last returned by Galaxy.get_lrs_data
    rng                \* the state of the random generator

vars == <<quadrants, total_klingons, total_starbases, initial_klingons,
          stardate, time_limit, enterprise, pc, cmd, args, result, combat, atk,
          turn, lrs_data, rng>>

galaxy_vars == <<quadrants, total_klingons, total_starbases, initial_klingons,
                 stardate, time_limit>>

CommandResult(ok, msg, time, attack, quit) ==
    [success |-> ok, message |-> msg, time_used |-> time,
     trigger_klingon_attack |-> attack, quit_game |-> quit]

Failed(msg) == CommandResult(FALSE, msg, 0, FALSE, FALSE)

Succeeded(msg) == CommandResult(TRUE, msg, 0, FALSE, FALSE)

NoResult == CommandResult(FALSE, "", 0, FALSE, FALSE)

NoCommand == ""

CurrentQuadrant == quadrants[ShipQuad(enterprise)]

----------------------------------------------------------------------------
(* game/galaxy.py: Galaxy *)

\* One outcome of Galaxy._initialize: 0..3 hostiles, 0..1 starbases and
\* 1..8 stars in every quadrant
LayoutKlingons(quad) ==
    IF quad = <<0, 0>> THEN 2
    ELSE IF quad = <<1, 1>> THEN 1
    ELSE IF quad = <<0, 1>> THEN 3
    ELSE IF (quad[1] + 2 * quad[2]) % 7 = 3 THEN 1
    ELSE 0

LayoutStarbases(quad) ==
    IF quad \in {<<0, 0>>, <<5, 2>>} THEN 1 ELSE 0

LayoutStars(quad) == 1 + ((quad[1] + quad[2]) % 2)

GeneratedQuadrants ==
    [quad \in Quads |->
        NewQuadrant(LayoutKlingons(quad), LayoutStarbases(quad),
                    LayoutStars(quad))]

QuadAt(n) == <<n \div GalaxySize, n % GalaxySize>>

RECURSIVE SumKlingons(_, _)
SumKlingons(qs, n) ==
    IF n = GalaxySize * GalaxySize THEN 0
    ELSE qs[QuadAt(n)].klingons + SumKlingons(qs, n + 1)

RECURSIVE SumStarbases(_, _)
SumStarbases(qs, n) ==
    IF n = GalaxySize * GalaxySize THEN 0
    ELSE qs[QuadAt(n)].starbases + SumStarbases(qs, n + 1)

\* Galaxy.get_lrs_data: the grid returned, three rows of three cells, a
\* cell <<value>> for a quadrant of the galaxy and None for one outside
LrsRow(qs, r, center_col) ==
    [j \in 1 .. 3 |->
        LET c == center_col + j - 2
        IN  IF r \in Idx /\ c \in Idx THEN <<get_lrs_value(qs[<<r, c>>])>>
            ELSE None]

lrs_values(qs, center) ==
    [i \in 1 .. 3 |-> LrsRow(qs, center[1] + i - 2, center[2])]

\* A variant of get_lrs_data that marks the centre only
get_lrs_data_centre_only(qs, center) ==
    [quad \in Quads |->
        IF quad = center THEN [qs[quad] EXCEPT !.scanned = TRUE] ELSE qs[quad]]

\* Galaxy.get_lrs_data: the quadrants afterwards
get_lrs_data(qs, center) ==
    [quad \in Quads |->
        IF Abs(quad[1] - center[1]) <= 1 /\ Abs(quad[2] - center[2]) <= 1
        THEN [qs[quad] EXCEPT !.scanned = TRUE]
        ELSE qs[quad]]

time_remaining == Max(0, time_limit - (stardate % (100 * TimeScale)))

is_game_won == total_klingons <= 0

is_time_up == time_remaining <= 0

----------------------------------------------------------------------------
(* startrek.py: StarTrekGame.initialize_game *)

Init ==
    \E sq \in StartQuadrants, sc \in StartSectors, s \in Seeds :
        LET q0 == initialize_sector_map(GeneratedQuadrants[sq], s)
            cell == place_enterprise_cell(q0, sc, s)
            q1 == [place_enterprise(q0, sc, s) EXCEPT !.scanned = TRUE]
        IN  /\ quadrants = [GeneratedQuadrants EXCEPT ![sq] = q1]
            /\ total_klingons = SumKlingons(GeneratedQuadrants, 0)
            /\ total_starbases = SumStarbases(GeneratedQuadrants, 0)
            /\ initial_klingons = SumKlingons(GeneratedQuadrants, 0)
            /\ stardate \in Stardates
            /\ time_limit \in TimeLimits
            /\ enterprise = set_position(NewEnterprise, sq, cell)
            /\ pc = "refresh"
            /\ cmd = NoCommand
            /\ args = <<>>
            /\ result = NoResult
            /\ combat = NoCombat
            /\ atk = 1
            /\ turn = 0
            /\ lrs_data = <<>>
            /\ rng = AfterDraws(s, PlacementDraws)

----------------------------------------------------------------------------
(* startrek.py: StarTrekGame.game_loop *)

AfterAttack(res) == IF res.quit_game THEN "over" ELSE "refresh"

AfterTime(res) ==
    IF res.trigger_klingon_attack THEN "attack" ELSE AfterAttack(res)

AfterCommand(res) == IF res.time_used > 0 THEN "time" ELSE AfterTime(res)

\* A variant of Terminal without the test for victory
Terminal_no_victory == enterprise.destroyed \/ is_time_up

Terminal == is_game_won \/ enterprise.destroyed \/ is_time_up

\* The count of commands executed; a negative turn stands for play of any
\* length (the loop is "while True") and is left as it is
CountTurn(t) == IF t < 0 THEN t ELSE t + 1

Prompt == pc = "prompt" /\ ~Terminal /\ turn < MaxTurns

\* The three checks at the top of the loop
GameOver ==
    /\ pc = "prompt"
    /\ Terminal
    /\ pc' = "over"
    /\ UNCHANGED <<galaxy_vars, enterprise, cmd, args, result, combat, atk, lrs_data, turn,
                   rng>>

\* Display.print_combined_display, at the start of the game and after
\* every command
Refresh ==
    /\ pc = "refresh"
    /\ LET q == CurrentQuadrant
           shown == IF HasMap(q) THEN quadrants
                    ELSE [quadrants EXCEPT ![ShipQuad(enterprise)] =
                             place_enterprise(initialize_sector_map(q, rng),
                                              ShipCell(enterprise), rng)]
       IN  /\ quadrants' = get_lrs_data(shown, ShipQuad(enterprise))
           /\ lrs_data' = lrs_values(shown, ShipQuad(enterprise))
           /\ rng' = IF HasMap(q) THEN rng ELSE AfterDraws(rng, PlacementDraws)
    /\ pc' = "prompt"
    /\ cmd' = NoCommand
    /\ args' = <<>>
    /\ result' = NoResult
    /\ combat' = NoCombat
    /\ UNCHANGED <<total_klingons, total_starbases, initial_klingons, stardate,
                   time_limit, enterprise, atk, turn>>

\* "if result.time_used > 0": advance_time, then repair_systems
AdvanceTime ==
    /\ pc = "time"
    /\ stardate' = stardate + result.time_used
    /\ enterprise' = repair_systems(enterprise, result.time_used)
    /\ pc' = AfterTime(result)
    /\ UNCHANGED <<quadrants, total_klingons, total_starbases, initial_klingons,
                   time_limit, cmd, args, result, combat, atk, lrs_data, turn, rng>>

\* CommandHandler.process_klingon_attack and klingon_attack: the attack
\* takes place when hostiles remain and the ship is not docked
\* A variant of AttackTakesPlace that does not ask whether the ship is docked
AttackTakesPlace_docked_too ==
    /\ CurrentQuadrant.klingons > 0
    /\ CurrentQuadrant.klingon_ships # <<>>

AttackTakesPlace ==
    /\ CurrentQuadrant.klingons > 0
    /\ ~enterprise.docked
    /\ CurrentQuadrant.klingon_ships # <<>>

AttackSkipped ==
    /\ pc = "attack"
    /\ atk = 1
    /\ ~AttackTakesPlace
    /\ pc' = AfterAttack(result)
    /\ UNCHANGED <<galaxy_vars, enterprise, cmd, args, result, combat, atk, lrs_data, turn,
                   rng>>

\* A variant of AttackEnds that goes through the whole list
AttackEnds_whole_list(e, i, n) == i = n

\* "if enterprise.destroyed: break", or the list is exhausted
AttackEnds(e, i, n) == e.destroyed \/ i = n

\* One pass of the loop "for klingon in klingons"
KlingonFires ==
    /\ pc = "attack"
    /\ atk > 1 \/ AttackTakesPlace
    /\ atk <= Len(CurrentQuadrant.klingon_ships)
    /\ enterprise' =
           apply_damage(enterprise,
                        KlingonDamage(enterprise,
                                      CurrentQuadrant.klingon_ships[atk],
                                      AttackFactor(rng)),
                        SystemRoll(rng))
    /\ rng' = AfterDraws(rng, ShotDraws)
    /\ IF AttackEnds(enterprise', atk, Len(CurrentQuadrant.klingon_ships))
       THEN pc' = AfterAttack(result) /\ atk' = 1
       ELSE pc' = "attack" /\ atk' = atk + 1
    /\ UNCHANGED <<galaxy_vars, cmd, args, result, combat, turn, lrs_data>>

----------------------------------------------------------------------------
(* game/commands.py: CommandHandler *)

\* The stepped path of execute_nav: position in 1/PosScale sector within
\* the quadrant, the quadrant, and whether a boundary was crossed; barrier
\* is TRUE when a step left the galaxy
WrapStep(x, quad) ==
    IF x < 0 THEN [x |-> x + SectorSize * PosScale, quad |-> quad - 1, crossed |-> TRUE]
    ELSE IF x >= SectorSize * PosScale
    THEN [x |-> x - SectorSize * PosScale, quad |-> quad + 1, crossed |-> TRUE]
    ELSE [x |-> x, quad |-> quad, crossed |-> FALSE]

RECURSIVE NavPath(_, _, _)
NavPath(p, vec, n) ==
    IF n = 0 THEN p
    ELSE LET r == WrapStep(p.row + vec[1], p.quad_row)
             c == WrapStep(p.col + vec[2], p.quad_col)
             p1 == [row |-> r.x, col |-> c.x, quad_row |-> r.quad,
                    quad_col |-> c.quad,
                    crossed |-> p.crossed \/ r.crossed \/ c.crossed,
                    barrier |-> FALSE]
         IN  IF r.quad \notin Idx \/ c.quad \notin Idx
             THEN [p1 EXCEPT !.barrier = TRUE]
             ELSE NavPath(p1, vec, n - 1)

NavStart(e) ==
    [row |-> e.sector_row * PosScale, col |-> e.sector_col * PosScale,
     quad_row |-> e.quadrant_row, quad_col |-> e.quadrant_col,
     crossed |-> FALSE, barrier |-> FALSE]

\* Warp factors are given in 1/WarpScale
WarpScale == 10 ^ 3

\* A variant of SectorsToMove that counts whole warp factors only
SectorsToMove_whole_warp(warp) == 8 * (warp \div WarpScale)

SectorsToMove(warp) == (warp * 8) \div WarpScale

\* A variant of EnergyRequired without the base cost
EnergyRequired_sectors_only(warp) == SectorsToMove(warp)

EnergyRequired(warp) == SectorsToMove(warp) + 10

\* "time_used = 1.0 / warp if warp > 0 else 0"
TimeUsed(warp) == IF warp > 0 THEN (TimeScale * WarpScale) \div warp ELSE 0

\* A variant of NavCancelled that lets warp 0 go on as a move
NavCancelled_never(warp) == FALSE

\* "if warp == 0": the navigation is cancelled
NavCancelled(warp) == warp = 0

\* A variant of RestoreEnterprise that leaves the cell as it was lifted
RestoreEnterprise_skipped(q, cell) == q

\* "Restore Enterprise to original position"
RestoreEnterprise(q, cell) == [q EXCEPT !.sector_map[cell] = "ENTERPRISE"]

FinalSector(p) ==
    <<RoundFix(p.row, PosScale) % SectorSize,
      RoundFix(p.col, PosScale) % SectorSize>>

\* The arrival of a completed move: the quadrants afterwards and the cell
\* the ship was put on
Arrival(qs, e, p, s) ==
    LET dest == <<p.quad_row, p.quad_col>>
        final == FinalSector(p)
    IN  IF p.crossed
        THEN LET fresh == initialize_sector_map(qs[dest], s)
             IN  [quadrants |-> [qs EXCEPT ![dest] =
                                    place_enterprise(fresh, final, s)],
                  cell |-> place_enterprise_cell(fresh, final, s)]
        ELSE LET q == qs[dest]
                 actual == IF get_entity_at(q, final) # "EMPTY"
                           THEN find_empty_sector(q.sector_map, s)
                           ELSE final
             IN  [quadrants |-> [qs EXCEPT ![dest].sector_map[actual] =
                                    "ENTERPRISE"],
                  cell |-> actual]

DockIfAdjacent(e, q, cell) ==
    IF is_adjacent_to_starbase(q, cell) THEN dock(e) ELSE e

\* execute_nav: course10 the course in tenths, warp in 1/WarpScale
execute_nav(course10, warp) ==
    /\ Prompt
    /\ cmd' = "NAV"
    /\ args' = IF ~can_warp(enterprise) THEN <<>>
               ELSE IF course10 < 10 \/ course10 > 90 THEN <<course10>>
               ELSE <<course10, warp>>
    /\ turn' = CountTurn(turn)
    /\ UNCHANGED <<total_klingons, total_starbases, initial_klingons, stardate,
                   time_limit, combat, atk, lrs_data>>
    /\ IF ~can_warp(enterprise)
       THEN /\ result' = Failed("Warp engines are damaged!")
            /\ UNCHANGED <<quadrants, enterprise, rng>>
       ELSE IF course10 < 10 \/ course10 > 90
       THEN /\ result' = Failed("Invalid course. Use 1-9.")
            /\ UNCHANGED <<quadrants, enterprise, rng>>
       ELSE IF warp < 0 \/ warp > 8 * WarpScale
       THEN /\ result' = Failed("Invalid warp factor. Use 0-8.")
            /\ UNCHANGED <<quadrants, enterprise, rng>>
       ELSE IF NavCancelled(warp)
       THEN /\ result' = Succeeded("Navigation cancelled.")
            /\ UNCHANGED <<quadrants, enterprise, rng>>
       ELSE IF EnergyRequired(warp) > enterprise.energy
       THEN /\ result' = Failed("Insufficient energy.")
            /\ UNCHANGED <<quadrants, enterprise, rng>>
       ELSE LET e1 == IF enterprise.docked THEN undock(enterprise)
                      ELSE enterprise
                here == ShipQuad(enterprise)
                lifted == [quadrants EXCEPT ![here] =
                              remove_enterprise(@, ShipCell(enterprise))]
                p == NavPath(NavStart(enterprise), StepVector(course10),
                             SectorsToMove(warp))
            IN  IF p.barrier
                THEN /\ quadrants' = [lifted EXCEPT ![here] =
                                RestoreEnterprise(@, ShipCell(enterprise))]
                     /\ enterprise' = e1
                     /\ rng' = rng
                     /\ result' = Failed("You have attempted to cross the galactic barrier.")
                ELSE LET e2 == use_energy(e1, EnergyRequired(warp))
                         a == Arrival(lifted, e2, p, rng)
                         dest == <<p.quad_row, p.quad_col>>
                         e3 == DockIfAdjacent(set_position(e2, dest, a.cell),
                                              a.quadrants[dest], a.cell)
                     IN  /\ quadrants' = a.quadrants
                         /\ enterprise' = e3
                         /\ rng' = AfterDraws(rng, PlacementDraws)
                         /\ result' = CommandResult(TRUE, "Warp engaged.",
                                TimeUsed(warp),
                                a.quadrants[dest].klingons > 0 /\ ~e3.docked,
                                FALSE)
    /\ pc' = AfterCommand(result')

\* execute_srs
execute_srs ==
    /\ Prompt
    /\ cmd' = "SRS"
    /\ args' = <<>>
    /\ turn' = CountTurn(turn)
    /\ result' = IF ~can_use_srs(enterprise)
                 THEN Failed("Short range sensors are damaged!")
                 ELSE Succeeded("")
    /\ pc' = AfterCommand(result')
    /\ UNCHANGED <<galaxy_vars, enterprise, combat, atk, lrs_data, rng>>

\* execute_lrs
execute_lrs ==
    /\ Prompt
    /\ cmd' = "LRS"
    /\ args' = <<>>
    /\ turn' = CountTurn(turn)
    /\ IF ~can_use_lrs(enterprise)
       THEN /\ result' = Failed("Long range sensors are damaged!")
            /\ UNCHANGED <<quadrants, lrs_data>>
       ELSE /\ result' = Succeeded("LONG RANGE SENSOR SCAN")
            /\ quadrants' = get_lrs_data(quadrants, ShipQuad(enterprise))
            /\ lrs_data' = lrs_values(quadrants, ShipQuad(enterprise))
    /\ pc' = AfterCommand(result')
    /\ UNCHANGED <<total_klingons, total_starbases, initial_klingons, stardate,
                   time_limit, enterprise, combat, atk, rng>>

\* A variant of klingon_destroyed that leaves the galaxy's count alone
klingon_destroyed_skipped(total, n) == total

\* Galaxy.klingon_destroyed, once per hostile destroyed
klingon_destroyed(total, n) == total - n

\* A variant of PhaserTrigger that asks only for hostiles
PhaserTrigger_any_result(q, res) == q.klingons > 0

\* "trigger_klingon_attack=quadrant.klingons > 0 and result.success"
PhaserTrigger(q, res) == q.klingons > 0 /\ res.success

\* execute_pha: energy the amount typed
execute_pha(energy) ==
    /\ Prompt
    /\ cmd' = "PHA"
    /\ args' = IF can_fire_phasers(enterprise)
                  /\ CurrentQuadrant.klingon_ships # <<>>
               THEN <<energy>> ELSE <<>>
    /\ turn' = CountTurn(turn)
    /\ UNCHANGED <<total_starbases, initial_klingons, stardate, time_limit, atk, lrs_data>>
    /\ IF ~can_fire_phasers(enterprise)
       THEN /\ result' = Failed("Phaser control is damaged!")
            /\ pc' = AfterCommand(result')
            /\ UNCHANGED <<quadrants, enterprise, total_klingons, combat, rng>>
       ELSE IF CurrentQuadrant.klingon_ships = <<>>
       THEN /\ result' = Failed("No Klingons in this quadrant!")
            /\ pc' = AfterCommand(result')
            /\ UNCHANGED <<quadrants, enterprise, total_klingons, combat, rng>>
       ELSE IF energy <= 0
       THEN /\ result' = Succeeded("Phasers not fired.")
            /\ pc' = AfterCommand(result')
            /\ UNCHANGED <<quadrants, enterprise, total_klingons, combat, rng>>
       ELSE LET f == fire_phasers(enterprise, CurrentQuadrant, energy,
                                  OverheatRoll(rng),
                                  [i \in 1 .. Len(CurrentQuadrant.klingon_ships)
                                      |-> PhaserFactor(rng, i)])
            IN  /\ enterprise' = f.enterprise
                /\ rng' = IF f.raised \/ f.result.success
                          THEN AfterDraws(rng, PhaserDraws)
                          ELSE rng
                /\ quadrants' = [quadrants EXCEPT ![ShipQuad(enterprise)] =
                                    f.quadrant]
                /\ combat' = f.result
                /\ IF f.raised
                   THEN /\ pc' = "crashed"
                        /\ UNCHANGED <<result, total_klingons>>
                   ELSE /\ total_klingons' =
                               klingon_destroyed(total_klingons,
                                                 f.result.klingons_destroyed)
                        /\ result' = CommandResult(f.result.success,
                                         f.result.message, 0,
                                         PhaserTrigger(f.quadrant, f.result),
                                         FALSE)
                        /\ pc' = AfterCommand(result')

\* execute_tor: direction10 the direction typed, in tenths
execute_tor(direction10) ==
    /\ Prompt
    /\ cmd' = "TOR"
    /\ args' = IF can_fire_torpedoes(enterprise) /\ enterprise.torpedoes > 0
               THEN <<direction10>> ELSE <<>>
    /\ turn' = CountTurn(turn)
    /\ UNCHANGED <<total_starbases, initial_klingons, stardate, time_limit, atk, lrs_data>>
    /\ IF ~can_fire_torpedoes(enterprise)
       THEN /\ result' = Failed("Photon tubes are damaged!")
            /\ UNCHANGED <<quadrants, enterprise, total_klingons, combat, rng>>
       ELSE IF enterprise.torpedoes <= 0
       THEN /\ result' = Failed("No torpedoes remaining!")
            /\ UNCHANGED <<quadrants, enterprise, total_klingons, combat, rng>>
       ELSE IF direction10 < 10 \/ direction10 > 90
       THEN /\ result' = Failed("Invalid direction. Use 1-9.")
            /\ UNCHANGED <<quadrants, enterprise, total_klingons, combat, rng>>
       ELSE LET f == fire_torpedo(enterprise, CurrentQuadrant, direction10)
            IN  /\ enterprise' = f.enterprise
                /\ rng' = rng
                /\ quadrants' = [quadrants EXCEPT ![ShipQuad(enterprise)] =
                                    f.quadrant]
                /\ combat' = f.result
                /\ total_klingons' =
                       klingon_destroyed(total_klingons,
                                         f.result.klingons_destroyed)
                /\ result' = CommandResult(f.result.success, f.result.message,
                                           0, f.quadrant.klingons > 0, FALSE)
    /\ pc' = AfterCommand(result')

\* execute_she: energy the amount typed
execute_she(energy) ==
    /\ Prompt
    /\ cmd' = "SHE"
    /\ args' = IF can_use_shields(enterprise) THEN <<energy>> ELSE <<>>
    /\ turn' = CountTurn(turn)
    /\ IF ~can_use_shields(enterprise)
       THEN /\ result' = Failed("Shield control is damaged!")
            /\ UNCHANGED enterprise
       ELSE IF energy = 0
       THEN /\ result' = Succeeded("No change to shields.")
            /\ UNCHANGED enterprise
       ELSE IF energy > 0 /\ energy > enterprise.energy
       THEN /\ result' = Failed("Insufficient energy.")
            /\ UNCHANGED enterprise
       ELSE IF energy < 0 /\ -energy > enterprise.shields
       THEN /\ result' = Failed("Cannot transfer more than current shields.")
            /\ UNCHANGED enterprise
       ELSE /\ enterprise' = transfer_to_shields(enterprise, energy)
            /\ result' = Succeeded("Shield energy now.")
    /\ pc' = AfterCommand(result')
    /\ UNCHANGED <<galaxy_vars, combat, atk, lrs_data, rng>>

\* execute_dam: yes is the answer to "Repair all systems? (Y/N)"
execute_dam(yes) ==
    /\ Prompt
    /\ cmd' = "DAM"
    /\ args' = IF /\ enterprise.docked
                  /\ \E sys \in ShipSystem : enterprise.damage[sys] < 0
               THEN <<yes>> ELSE <<>>
    /\ turn' = CountTurn(turn)
    /\ enterprise' =
           IF /\ enterprise.docked
              /\ \E sys \in ShipSystem : enterprise.damage[sys] < 0
              /\ yes
           THEN repair_all(enterprise)
           ELSE enterprise
    /\ result' = Succeeded("DAMAGE CONTROL REPORT")
    /\ pc' = AfterCommand(result')
    /\ UNCHANGED <<galaxy_vars, combat, atk, lrs_data, rng>>

\* execute_com: the functions 0 .. 5 only read the state
execute_com(func) ==
    /\ Prompt
    /\ cmd' = "COM"
    /\ args' = IF can_use_computer(enterprise) THEN <<func>> ELSE <<>>
    /\ turn' = CountTurn(turn)
    /\ result' = IF ~can_use_computer(enterprise)
                 THEN Failed("Library computer is damaged!")
                 ELSE IF func \in 0 .. 5 THEN Succeeded("COMPUTER")
                 ELSE Failed("Invalid function.")
    /\ pc' = AfterCommand(result')
    /\ UNCHANGED <<galaxy_vars, enterprise, combat, atk, lrs_data, rng>>

\* execute_xxx: yes is the answer to "Are you sure you want to quit? (Y/N)"
execute_xxx(yes) ==
    /\ Prompt
    /\ cmd' = "XXX"
    /\ args' = <<yes>>
    /\ turn' = CountTurn(turn)
    /\ result' = IF yes
                 THEN CommandResult(TRUE, "Game terminated.", 0, FALSE, TRUE)
                 ELSE Succeeded("Returning to game.")
    /\ pc' = AfterCommand(result')
    /\ UNCHANGED <<galaxy_vars, enterprise, combat, atk, lrs_data, rng>>

\* A variant of UnknownCommand followed by the hostiles' fire
UnknownCommand_counter_attack ==
    /\ Prompt
    /\ cmd' = "???"
    /\ args' = <<>>
    /\ turn' = CountTurn(turn)
    /\ pc' = "attack"
    /\ UNCHANGED <<galaxy_vars, enterprise, result, combat, atk, lrs_data, rng>>

\* StarTrekGame.execute_command with a token outside command_map: it
\* returns None, and game_loop goes on to the display refresh
UnknownCommand ==
    /\ Prompt
    /\ cmd' = "???"
    /\ args' = <<>>
    /\ turn' = CountTurn(turn)
    /\ pc' = "refresh"
    /\ UNCHANGED <<galaxy_vars, enterprise, result, combat, atk, lrs_data, rng>>

Nav == \E course10 \in Courses, warp \in Warps : execute_nav(course10, warp)

Srs == execute_srs

Lrs == execute_lrs

Pha == \E energy \in PhaserInputs : execute_pha(energy)

Tor == \E direction10 \in Directions : execute_tor(direction10)

She == \E energy \in ShieldInputs : execute_she(energy)

Dam == \E yes \in BOOLEAN : execute_dam(yes)

Com == \E func \in ComputerFunctions : execute_com(func)

Xxx == \E yes \in BOOLEAN : execute_xxx(yes)

Next ==
    \/ Refresh
    \/ GameOver
    \/ Nav
    \/ Srs
    \/ Lrs
    \/ Pha
    \/ Tor
    \/ She
    \/ Dam
    \/ Com
    \/ Xxx
    \/ UnknownCommand
    \/ AdvanceTime
    \/ AttackSkipped
    \/ KlingonFires

Spec == Init /\ [][Next]_vars

----------------------------------------------------------------------------
(* Properties *)

\* The turn boundary: game_loop is about to read a command
TurnBoundary == pc = "prompt"

\* C1: the galaxy's count of hostiles is the sum of the quadrants' counts,
\* in every state, so also at every turn boundary and after every kill by
\* phasers or by a torpedo
C1_TotalKlingons == total_klingons = SumKlingons(quadrants, 0)

\* C1's case: a turn boundary after a hostile was destroyed
C1_Witness == TurnBoundary /\ total_klingons < initial_klingons

CellsHolding(q, tag) == {cell \in Cells : q.sector_map[cell] = tag}

MapConsistent(q) ==
    /\ Cardinality(CellsHolding(q, "KLINGON")) = q.klingons
    /\ Len(q.klingon_ships) = q.klingons
    /\ \A i \in 1 .. Len(q.klingon_ships) :
           q.sector_map[KlingonCell(q.klingon_ships[i])] = "KLINGON"
    /\ \A i, j \in 1 .. Len(q.klingon_ships) :
           KlingonCell(q.klingon_ships[i]) = KlingonCell(q.klingon_ships[j])
               => i = j
    /\ q.starbases \in {0, 1}
    /\ Cardinality(CellsHolding(q, "STARBASE")) = q.starbases
    /\ IF q.starbases = 1
       THEN /\ q.starbase_pos \in Cells
            /\ q.sector_map[q.starbase_pos] = "STARBASE"
       ELSE q.starbase_pos = None
    /\ \A i \in 1 .. Len(q.star_positions) :
           q.sector_map[q.star_positions[i]] = "STAR"

\* C2: in every quadrant that has a sector map the KLINGON cells, the count
\* klingons and the list klingon_ships agree, the STARBASE cells agree with
\* starbases (0 or 1) and starbase_pos, and every star position is a STAR
C2_SectorMapConsistent ==
    \A quad \in Quads : HasMap(quadrants[quad]) => MapConsistent(quadrants[quad])

\* C2's case: a quadrant that lost both a hostile and its starbase
C2_Witness ==
    /\ HasMap(CurrentQuadrant)
    /\ CurrentQuadrant.klingons < LayoutKlingons(ShipQuad(enterprise))
    /\ CurrentQuadrant.starbases < LayoutStarbases(ShipQuad(enterprise))

\* C3: at a turn boundary a docked ship has no shields, full energy and
\* all its torpedoes, whatever was commanded while it was docked
C3_DockedReplenished ==
    (TurnBoundary /\ enterprise.docked)
        => /\ enterprise.shields = 0
           /\ enterprise.energy = enterprise.max_energy
           /\ enterprise.torpedoes = enterprise.max_torpedoes

\* C4: the galaxy's count of starbases is the sum of the quadrants' counts,
\* also after a torpedo destroyed a starbase
C4_TotalStarbases == total_starbases = SumStarbases(quadrants, 0)

\* C5: at a turn boundary a ship without energy is marked destroyed
C5_NoEnergyDestroyed ==
    (TurnBoundary /\ enterprise.energy <= 0) => enterprise.destroyed

\* What C6 asks of a rejected command: a failed result, no time, no
\* counter-attack, and the galaxy, its quadrants and the ship as before
RejectedOutcome ==
    /\ ~result'.success
    /\ result'.time_used = 0
    /\ ~result'.trigger_klingon_attack
    /\ pc' = "refresh"
    /\ UNCHANGED <<galaxy_vars, enterprise>>

\* The command this step executes, read at a turn boundary
Executes(name) == Prompt /\ cmd' = name

NavRejected ==
    \/ ~can_warp(enterprise)
    \/ Len(args') >= 1 /\ (args'[1] < 10 \/ args'[1] > 90)
    \/ /\ Len(args') = 2
       /\ \/ args'[2] < 0 \/ args'[2] > 8 * WarpScale
          \/ args'[2] > 0 /\ EnergyRequired(args'[2]) > enterprise.energy

PhaRejected ==
    \/ ~can_fire_phasers(enterprise)
    \/ args' # <<>> /\ args'[1] > enterprise.energy

TorRejected ==
    \/ ~can_fire_torpedoes(enterprise)
    \/ enterprise.torpedoes <= 0
    \/ args' # <<>> /\ (args'[1] < 10 \/ args'[1] > 90)

SheRejected ==
    \/ ~can_use_shields(enterprise)
    \/ args' # <<>> /\ args'[1] > 0 /\ args'[1] > enterprise.energy
    \/ args' # <<>> /\ args'[1] < 0 /\ -args'[1] > enterprise.shields

NavLeavesGalaxy ==
    /\ ~NavRejected
    /\ args'[2] > 0
    /\ NavPath(NavStart(enterprise), StepVector(args'[1]),
               SectorsToMove(args'[2])).barrier

\* C7: a NAV whose path leaves the galaxy fails with no energy spent and
\* no time used, the ship's quadrant and sector as before, and every
\* sector map as before, the ENTERPRISE tag on the cell it left
C7_BarrierRollsBack ==
    [][(Executes("NAV") /\ NavLeavesGalaxy)
           => /\ ~result'.success
              /\ result'.time_used = 0
              /\ enterprise'.energy = enterprise.energy
              /\ ShipQuad(enterprise') = ShipQuad(enterprise)
              /\ ShipCell(enterprise') = ShipCell(enterprise)
              /\ quadrants' = quadrants
              /\ quadrants'[ShipQuad(enterprise)].sector_map[ShipCell(enterprise)]
                     = "ENTERPRISE"]_vars

\* C7's case: a NAV was stopped at the galactic barrier
C7_Witness ==
    /\ cmd = "NAV"
    /\ result.message = "You have attempted to cross the galactic barrier."

\* C8: an overheating phaser shot (more than 1500 units, the draw below the
\* chance) ends as a failed result and the loop goes on; the energy is
\* spent, PHASER_CONTROL is damaged by more than -3 and at most -1 day,
\* and the hostiles are as before
C8_OverheatFails ==
    [][(/\ Executes("PHA")
        /\ ~PhaRejected
        /\ args' # <<>>
        /\ Overheats(args'[1], OverheatRoll(rng)))
           => /\ pc' \in {"refresh", "time", "attack"}
              /\ ~result'.success
              /\ enterprise'.energy = enterprise.energy - args'[1]
              /\ enterprise'.damage["PHASER_CONTROL"] > -3 * DamageScale
              /\ enterprise'.damage["PHASER_CONTROL"] <= -DamageScale
              /\ quadrants' = quadrants
              /\ total_klingons' = total_klingons]_vars

\* The hostiles of the quadrant before a volley, and the volley's outcome
\* as execute_pha leaves it
PhaserOutcome(energy) ==
    LET q == CurrentQuadrant
        q2 == quadrants'[ShipQuad(enterprise)]
        ships == q.klingon_ships
        n == Len(ships)
        dealt == combat'.damage_dealt
        kills == {i \in 1 .. n : dealt[i][3] >= ships[i].energy}
    IN  /\ result'.success
        /\ Len(dealt) = n
        /\ \A i \in 1 .. n :
               LET d == ClampDistance(calculate_distance(ShipCell(enterprise),
                                                         KlingonCell(ships[i])))
                   cell == KlingonCell(ships[i])
               IN  /\ dealt[i][3] >= (energy * 2 * DistScale) \div (n * d)
                   /\ dealt[i][3] <= (energy * 3 * DistScale) \div (n * d)
                   /\ IF i \in kills
                      THEN /\ q2.sector_map[cell] = "EMPTY"
                           /\ \A j \in 1 .. Len(q2.klingon_ships) :
                                  KlingonCell(q2.klingon_ships[j]) # cell
                      ELSE /\ q2.sector_map[cell] = "KLINGON"
                           /\ ships[i].energy - dealt[i][3] >= 1
                           /\ \E j \in 1 .. Len(q2.klingon_ships) :
                                  q2.klingon_ships[j] =
                                      [ships[i] EXCEPT
                                          !.energy = @ - dealt[i][3]]
        /\ Len(q2.klingon_ships) = n - Cardinality(kills)
        /\ q2.klingons = q.klingons - Cardinality(kills)
        /\ total_klingons' = total_klingons - Cardinality(kills)
        /\ combat'.klingons_destroyed = Cardinality(kills)

RayCell(cell, d, k) ==
    <<cell[1] + k * direction_deltas(d)[1], cell[2] + k * direction_deltas(d)[2]>>

RayStops(q, cell, d, k) ==
    \/ RayCell(cell, d, k) \notin Cells
    \/ q.sector_map[RayCell(cell, d, k)] \in {"KLINGON", "STAR", "STARBASE"}

\* The first cell of the ray that is outside the quadrant or occupied
RayEnd(q, cell, d) ==
    RayCell(cell, d,
            CHOOSE k \in 1 .. SectorSize :
                /\ RayStops(q, cell, d, k)
                /\ \A j \in 1 .. k - 1 : ~RayStops(q, cell, d, j))

TorpedoOutcome(d) ==
    LET q == CurrentQuadrant
        q2 == quadrants'[ShipQuad(enterprise)]
        hit == RayEnd(q, ShipCell(enterprise), d)
    IN  /\ enterprise'.torpedoes = enterprise.torpedoes - 1
        /\ \A quad \in Quads \ {ShipQuad(enterprise)} :
               quadrants'[quad] = quadrants[quad]
        /\ IF hit \notin Cells
           THEN /\ q2 = q
                /\ combat'.klingons_destroyed = 0
                /\ combat'.message = "Torpedo missed - left quadrant."
           ELSE CASE q.sector_map[hit] = "KLINGON" ->
                       /\ combat'.klingons_destroyed = 1
                       /\ q2.sector_map = [q.sector_map EXCEPT ![hit] = "EMPTY"]
                       /\ q2.klingons = q.klingons - 1
                       /\ q2.klingon_ships =
                              SelectSeq(q.klingon_ships,
                                        LAMBDA k : KlingonCell(k) # hit)
                  [] q.sector_map[hit] = "STAR" ->
                       /\ combat'.klingons_destroyed = 0
                       /\ q2 = q
                  [] q.sector_map[hit] = "STARBASE" ->
                       /\ combat'.klingons_destroyed = 0
                       /\ q2.sector_map = [q.sector_map EXCEPT ![hit] = "EMPTY"]
                       /\ q2.starbases = 0
                       /\ q2.starbase_pos = None
                       /\ q2.klingon_ships = q.klingon_ships

\* C10: a torpedo fired along a whole direction 1 .. 8 meets the cells of
\* the ray in order and stops at the first KLINGON, STAR or STARBASE: the
\* KLINGON is removed (klingons_destroyed 1), the STAR leaves the map as it
\* was, the STARBASE is cleared; no other cell changes; a ray that leaves
\* the quadrant first is a miss (klingons_destroyed 0, the map as it was)
C10_TorpedoRay ==
    [][\A d \in 1 .. 8 :
           (Executes("TOR") /\ ~TorRejected /\ args' = <<10 * d>>)
               => TorpedoOutcome(d)]_vars

\* C10's case: a torpedo met a star with cells of the ray beyond it
C10_Witness ==
    /\ cmd = "TOR"
    /\ combat.message = "Torpedo impacted star."
    /\ enterprise.torpedoes < enterprise.max_torpedoes

C12_DockedNoDamage ==
    [][/\ (pc = "attack" /\ enterprise.docked) => enterprise' = enterprise
       /\ (Prompt /\ enterprise.docked /\ cmd' \notin {NoCommand, "NAV"})
              => enterprise'.docked]_vars

\* C12's case: a weapon was fired while docked in a quadrant with two
\* hostiles, the counter-attack was called for and has been passed over
C12_Witness ==
    /\ pc = "refresh"
    /\ cmd \in {"PHA", "TOR"}
    /\ result.trigger_klingon_attack
    /\ enterprise.docked
    /\ Len(CurrentQuadrant.klingon_ships) >= 2

\* The command executed in this step leaves a counter-attack to come on a
\* ship that hostile fire will reach
HostileFireDue ==
    /\ result'.trigger_klingon_attack
    /\ pc' \in {"time", "attack"}
    /\ ~enterprise'.docked
    /\ quadrants'[ShipQuad(enterprise')].klingons > 0
    /\ quadrants'[ShipQuad(enterprise')].klingon_ships # <<>>

\* C12 as stated, for any command issued while docked: no hostile fire
\* follows the command
C12_AnyCommandWhileDocked ==
    [][(Prompt /\ enterprise.docked /\ cmd' # NoCommand) => ~HostileFireDue]_vars

\* A pass of the counter-attack: the hostile at index atk of the list fires
AttackStep == pc = "attack" /\ (atk > 1 \/ AttackTakesPlace)

\* C13: in a counter-attack on an undocked ship the hostiles fire in the
\* order of the list, starting with the first, one hostile per pass and none
\* twice; each hit is taken from shields and energy as they stand after the
\* hits before it; a hit that destroys the ship ends the attack; and if the
\* ship survives, the attack ends only with the last hostile of the list
C13_AttackSequence ==
    /\ [](pc # "attack" => atk = 1)
    /\ [][AttackStep
              => LET ships == CurrentQuadrant.klingon_ships
                     hit == KlingonDamage(enterprise, ships[atk],
                                          AttackFactor(rng))
                 IN  /\ atk \in 1 .. Len(ships)
                     /\ quadrants' = quadrants
                     /\ enterprise'.shields + enterprise'.energy
                            = enterprise.shields + enterprise.energy - hit
                     /\ IF enterprise'.destroyed THEN pc' # "attack"
                        ELSE IF atk < Len(ships)
                        THEN pc' = "attack" /\ atk' = atk + 1
                        ELSE pc' # "attack"]_vars

\* C13's case: the first of two hostiles has fired and hit, the ship
\* survived, and the second is about to fire
C13_Witness ==
    /\ pc = "attack"
    /\ atk = 2
    /\ Len(CurrentQuadrant.klingon_ships) = 2
    /\ enterprise.energy < enterprise.max_energy
    /\ ~enterprise.destroyed

\* C14: within a turn the counter-attack comes before the stardate advance
\* and the repair tick: when the elapsed time is added to the stardate and
\* repair_systems runs, no hostile fire of that turn is still to come
C14_AttackBeforeTime ==
    [][(pc = "time" /\ stardate' # stardate)
           => ~(pc' = "attack" /\ AttackTakesPlace')]_vars

\* Shields first: what C15 asks of the ship e2 that apply_damage(D) leaves
\* of the ship e
ShieldsFirst(e, e2, D) ==
    /\ e2.shields = Max(e.shields - D, 0)
    /\ e2.energy = e.energy - Max(D - e.shields, 0)
    /\ e2.shields + e2.energy = e.shields + e.energy - D
    /\ e2.energy # e.energy => D > e.shields

\* Levels of shields and energy and amounts of damage, the amount 0 and the
\* amount equal to the shields among them
DamageLevels == {0, 1, 100, 2900}

\* C15: apply_damage(D), D >= 0, takes the damage from the shields first:
\* shields is max(shields - D, 0) and energy is energy - max(D - shields, 0)
\* afterwards, so shields + energy drops by exactly D and energy changes only
\* when D exceeds the shields; for every hit of a hostile in the game and
\* for every combination of the levels above, with and without system damage
C15_ShieldsFirst ==
    [][AttackStep
           => /\ ShieldsFirst(enterprise, enterprise',
                              KlingonDamage(enterprise,
                                            CurrentQuadrant.klingon_ships[atk],
                                            AttackFactor(rng)))
              /\ \A sh \in DamageLevels, en \in DamageLevels,
                    D \in DamageLevels :
                     LET e == [enterprise EXCEPT !.shields = sh, !.energy = en]
                     IN  /\ ShieldsFirst(e, apply_damage(e, D, NoRoll), D)
                         /\ ShieldsFirst(e, apply_damage(e, D, SystemRoll(rng)),
                                         D)]_vars

\* C15's case: shields of 100 took the whole of a hit and the energy behind
\* them is untouched
C15_Witness ==
    /\ pc \in {"attack", "refresh"}
    /\ enterprise.shields \in 1 .. 99
    /\ enterprise.energy = 2900
    /\ ~enterprise.destroyed

C17_WarpZeroNoOp ==
    [][(Executes("NAV") /\ Len(args') = 2 /\ args'[2] = 0)
           => /\ result'.success
              /\ result'.time_used = 0
              /\ ~result'.trigger_klingon_attack
              /\ pc' = "refresh"
              /\ UNCHANGED <<enterprise, galaxy_vars>>]_vars

\* C17's case: warp 0 was given by a docked ship with hostiles in the
\* quadrant
C17_Witness ==
    /\ cmd = "NAV"
    /\ Len(args) = 2
    /\ args[2] = 0
    /\ result.message = "Navigation cancelled."
    /\ enterprise.docked
    /\ CurrentQuadrant.klingons > 0

\* What C18 asks of the state a successful NAV leaves
DockedIffAdjacent ==
    LET e == enterprise'
        q == quadrants'[ShipQuad(e)]
    IN  /\ e.docked <=> /\ q.starbase_pos # None
                        /\ Abs(e.sector_row - q.starbase_pos[1]) <= 1
                        /\ Abs(e.sector_col - q.starbase_pos[2]) <= 1
        /\ e.docked => /\ e.energy = e.max_energy
                       /\ e.torpedoes = e.max_torpedoes
                       /\ e.shields = 0
                       /\ ~result'.trigger_klingon_attack

\* C18 as stated, for every successful NAV, the cancelled one (warp 0)
\* included
C18_EverySuccessfulNav ==
    [][(Executes("NAV") /\ result'.success) => DockedIffAdjacent]_vars

\* C18: after every successful NAV that moves the ship (warp above 0) the
\* ship is docked if and only if its cell is within one row and one column
\* of the starbase of the quadrant it ended in; a ship docked so has
\* max_energy, max_torpedoes and no shields, and no counter-attack is
\* called for
C18_DockedIffAdjacent ==
    [][(Executes("NAV") /\ result'.success /\ args'[2] > 0)
           => DockedIffAdjacent]_vars

\* C18's case: a move ended next to the starbase of a quadrant that holds
\* hostiles, and the ship docked
C18_Witness ==
    /\ cmd = "NAV"
    /\ result.success
    /\ args[2] > 0
    /\ enterprise.docked
    /\ is_adjacent_to_starbase(CurrentQuadrant, ShipCell(enterprise))
    /\ CurrentQuadrant.klingons > 0

\* The quadrants of the galaxy in the 3x3 block around center
InBlock(quad, center) ==
    Abs(quad[1] - center[1]) <= 1 /\ Abs(quad[2] - center[2]) <= 1

\* A step that runs Galaxy.get_lrs_data, centred on the ship's quadrant
ScanStep == pc = "refresh" \/ (Executes("LRS") /\ can_use_lrs(enterprise))

\* What C19 asks of a scan: the flags of the block set, the grid returned,
\* and everything else as before
ScanOutcome ==
    LET center == ShipQuad(enterprise)
    IN  /\ \A quad \in Quads :
               /\ quadrants'[quad].scanned
                      = (quadrants[quad].scanned \/ InBlock(quad, center))
               /\ [quadrants'[quad] EXCEPT !.scanned = FALSE]
                      = [quadrants[quad] EXCEPT !.scanned = FALSE]
        /\ \A i, j \in 1 .. 3 :
               LET quad == <<center[1] + i - 2, center[2] + j - 2>>
               IN  lrs_data'[i][j] =
                       IF quad \in Quads
                       THEN <<quadrants[quad].klingons * 100
                                  + quadrants[quad].starbases * 10
                                  + quadrants[quad].stars>>
                       ELSE None
        /\ UNCHANGED <<enterprise, total_klingons, total_starbases,
                       initial_klingons, stardate, time_limit>>

C20_RefreshLeavesModel ==
    [][(pc = "refresh" /\ HasMap(CurrentQuadrant))
           => quadrants' = quadrants]_vars

\* The state initialize_game leaves: no command read yet, the first screen
\* not yet drawn
NewGame == turn = 0 /\ pc = "refresh"

\* C21: right after a new game is initialised the ship's quadrant has a
\* sector map with exactly one ENTERPRISE cell, the cell recorded as the
\* ship's sector, and is scanned; every other quadrant is not scanned and
\* has no sector map
C21_NewGamePlacement ==
    NewGame =>
        /\ HasMap(CurrentQuadrant)
        /\ ShipCell(enterprise) \in Cells
        /\ CellsHolding(CurrentQuadrant, "ENTERPRISE") = {ShipCell(enterprise)}
        /\ CurrentQuadrant.scanned
        /\ \A quad \in Quads \ {ShipQuad(enterprise)} :
               /\ ~quadrants[quad].scanned
               /\ ~HasMap(quadrants[quad])

\* C21's case: a new game whose drawn start sector was taken, the ship put
\* on another cell
C21_Witness ==
    /\ NewGame
    /\ ShipCell(enterprise) \notin StartSectors
    /\ CurrentQuadrant.sector_map[ShipCell(enterprise)] = "ENTERPRISE"
    /\ \E cell \in StartSectors :
           CurrentQuadrant.sector_map[cell] \in {"KLINGON", "STAR", "STARBASE"}

----------------------------------------------------------------------------
(* The end of a game.  A game is won after at least ten hostiles are      *)
(* destroyed, many more commands than MaxTurns; EndgameInit is a state    *)
(* late in a game: every hostile but one destroyed, the last one in the   *)
(* ship's quadrant, which the ship has just entered, and EndgameDays of   *)
(* the time limit used.                                                   *)

EndgameDays == 20 * TimeScale

EndgameQuadrants ==
    [quad \in Quads |->
        [GeneratedQuadrants[quad] EXCEPT
            !.klingons = IF quad \in StartQuadrants THEN 1 ELSE 0]]

EndgameInit ==
    \E sq \in StartQuadrants, sc \in StartSectors, s \in Seeds :
        LET q0 == initialize_sector_map(EndgameQuadrants[sq], s)
            cell == place_enterprise_cell(q0, sc, s)
            q1 == [place_enterprise(q0, sc, s) EXCEPT !.scanned = TRUE]
        IN  /\ quadrants = [EndgameQuadrants EXCEPT ![sq] = q1]
            /\ total_klingons = SumKlingons(EndgameQuadrants, 0)
            /\ total_starbases = SumStarbases(GeneratedQuadrants, 0)
            /\ initial_klingons = SumKlingons(GeneratedQuadrants, 0)
            /\ stardate \in {d + EndgameDays : d \in Stardates}
            /\ time_limit \in TimeLimits
            /\ enterprise = set_position(NewEnterprise, sq, cell)
            /\ pc = "refresh"
            /\ cmd = NoCommand
            /\ args = <<>>
            /\ result = NoResult
            /\ combat = NoCombat
            /\ atk = 1
            /\ turn = 0
            /\ lrs_data = <<>>
            /\ rng = AfterDraws(s, PlacementDraws)

SpecEndgame == EndgameInit /\ [][Next]_vars

\* One of the three terminal conditions holds
GameEnded ==
    \/ total_klingons <= 0
    \/ enterprise.destroyed
    \/ Max(0, time_limit - (stardate % (100 * TimeScale))) <= 0

\* C22: the terminal conditions are checked before each command is read:
\* at a turn boundary where the hostiles are all destroyed, or the ship is
\* destroyed, or no time remains, the loop ends and no command is executed
\* then or later; and the step that destroys the last hostile of the
\* galaxy leaves is_game_won true, so the next boundary ends the game
C22_TerminalEndsGame ==
    /\ [][(pc = "prompt" /\ GameEnded)
              => /\ pc' = "over"
                 /\ UNCHANGED <<galaxy_vars, enterprise, cmd, args, result,
                                turn>>]_vars
    /\ [][pc # "over"]_vars
    /\ [][(SumKlingons(quadrants, 0) > 0 /\ SumKlingons(quadrants', 0) = 0)
              => is_game_won']_vars

\* C22's case: the last hostile of the galaxy was destroyed and the loop
\* ended at the next turn boundary, the ship intact and time left
C22_Witness ==
    /\ pc = "over"
    /\ SumKlingons(quadrants, 0) = 0
    /\ is_game_won
    /\ ~enterprise.destroyed
    /\ ~is_time_up
    /\ ~result.quit_game
    /\ turn > 0

----------------------------------------------------------------------------
(* game/galaxy.py: Galaxy._initialize, run on the draws of the generator  *)
(* rather than on one layout.  A value of random.random() is kept in      *)
(* thousandths.  The quadrants of FreeQuadrants take every combination of *)
(* the rolls below; the other quadrants follow one of DrawProfiles.       *)

KlingonRolls == {79, 80, 199, 200, 499, 500}
StarbaseRolls == {39, 40}
StarDraws == {1, SectorSize}
StardateDraws == 20 .. 40
TimeLimitDraws == {0, 5, 10}
MinimumKlingons == 10
MaxKlingonsPerQuadrant == 3

FreeQuadrants == {<<0, 0>>, <<7, 7>>}
StarbasePicks == {<<0, 0>>, <<5, 2>>}
KlingonPicks == {<<0, 0>>, <<0, 1>>, <<3, 4>>, <<7, 7>>}
DrawProfiles == {"sparse", "mixed", "dense"}

\* The hostiles of a quadrant, from its roll r
KlingonsDrawn(r) ==
    IF r < 80 THEN 3
    ELSE IF r < 200 THEN 2
    ELSE IF r < 500 THEN 1
    ELSE 0

\* The starbases of a quadrant, from its roll r
StarbasesDrawn(r) == IF r < 40 THEN 1 ELSE 0

\* The three draws of a quadrant outside FreeQuadrants
ProfileDraw(p, quad) ==
    LET n == quad[1] * GalaxySize + quad[2]
    IN  IF p = "sparse" THEN <<500, 40, 1>>
        ELSE IF p = "dense" THEN <<79, 39, SectorSize>>
        ELSE <<(n * 137) % RollScale, (n * 61) % RollScale,
               1 + (n % SectorSize)>>

\* The quadrants after the two loops over rows and columns
DrawnQuadrants(p, free) ==
    [quad \in Quads |->
        LET d == IF quad \in FreeQuadrants THEN free[quad]
                 ELSE ProfileDraw(p, quad)
        IN  NewQuadrant(KlingonsDrawn(d[1]), StarbasesDrawn(d[2]), d[3])]

GenerateInit ==
    \E p \in DrawProfiles,
       free \in [FreeQuadrants -> KlingonRolls \X StarbaseRolls \X StarDraws] :
        /\ quadrants = DrawnQuadrants(p, free)
        /\ total_klingons = SumKlingons(DrawnQuadrants(p, free), 0)
        /\ total_starbases = SumStarbases(DrawnQuadrants(p, free), 0)
        /\ initial_klingons = 0
        /\ stardate = 0
        /\ time_limit = 0
        /\ enterprise = NewEnterprise
        /\ pc = "starbases"
        /\ cmd = NoCommand
        /\ args = <<>>
        /\ result = NoResult
        /\ combat = NoCombat
        /\ atk = 1
        /\ turn = 0
        /\ lrs_data = <<>>
        /\ rng = 0

generation_rest == <<enterprise, cmd, args, result, combat, atk, turn,
                     lrs_data, rng>>

\* "Ensure at least one starbase"
EnsureStarbase ==
    /\ pc = "starbases"
    /\ IF total_starbases = 0
       THEN \E quad \in StarbasePicks :
                /\ quadrants' = [quadrants EXCEPT ![quad].starbases = 1]
                /\ total_starbases' = 1
       ELSE UNCHANGED <<quadrants, total_starbases>>
    /\ pc' = "klingons"
    /\ UNCHANGED <<total_klingons, initial_klingons, stardate, time_limit>>
    /\ UNCHANGED generation_rest

\* A variant of AddKlingon without the limit per quadrant
AddKlingon_unchecked(q) == [q EXCEPT !.klingons = @ + 1]

\* One pass of "Ensure minimum Klingons" on the quadrant picked
AddKlingon(q) ==
    IF q.klingons < MaxKlingonsPerQuadrant
    THEN [q EXCEPT !.klingons = @ + 1]
    ELSE q

EnsureKlingons ==
    /\ pc = "klingons"
    /\ total_klingons < MinimumKlingons
    /\ \E quad \in KlingonPicks :
           /\ quadrants' = [quadrants EXCEPT ![quad] = AddKlingon(@)]
           /\ total_klingons' =
                  IF quadrants[quad].klingons < MaxKlingonsPerQuadrant
                  THEN total_klingons + 1
                  ELSE total_klingons
    /\ UNCHANGED <<total_starbases, initial_klingons, stardate, time_limit,
                   pc>>
    /\ UNCHANGED generation_rest

\* The end of the loop: the count at the start of the game is recorded
KlingonsEnsured ==
    /\ pc = "klingons"
    /\ total_klingons >= MinimumKlingons
    /\ initial_klingons' = total_klingons
    /\ pc' = "dates"
    /\ UNCHANGED <<quadrants, total_klingons, total_starbases, stardate,
                   time_limit>>
    /\ UNCHANGED generation_rest

\* "Set game time"
SetGameTime ==
    /\ pc = "dates"
    /\ \E d \in StardateDraws, t \in TimeLimitDraws :
           /\ stardate' = d * 100 * TimeScale
           /\ time_limit' = (25 + t) * TimeScale
    /\ pc' = "generated"
    /\ UNCHANGED <<quadrants, total_klingons, total_starbases,
                   initial_klingons>>
    /\ UNCHANGED generation_rest

NextGenerate ==
    \/ EnsureStarbase
    \/ EnsureKlingons
    \/ KlingonsEnsured
    \/ SetGameTime

SpecGenerate == GenerateInit /\ [][NextGenerate]_vars

Generated == pc = "generated"

\* C23: whatever the draws, a freshly generated galaxy has at least ten
\* hostiles and at least one starbase, its two totals are the sums of the
\* quadrants' counts over all 64 quadrants, every quadrant holds 0..3
\* hostiles, 0..1 starbases and 1..8 stars, and initial_klingons equals
\* total_klingons
C23_GeneratedGalaxy ==
    Generated =>
        /\ total_klingons >= 10
        /\ total_starbases >= 1
        /\ total_klingons = SumKlingons(quadrants, 0)
        /\ total_starbases = SumStarbases(quadrants, 0)
        /\ \A quad \in Quads :
               /\ quadrants[quad].klingons \in 0 .. 3
               /\ quadrants[quad].starbases \in 0 .. 1
               /\ quadrants[quad].stars \in 1 .. 8
        /\ initial_klingons = total_klingons

\* C23's case: the draws left no starbase and fewer than ten hostiles, one
\* starbase was placed and hostiles were added up to ten, a quadrant
\* reaching the limit of three
C23_Witness ==
    /\ Generated
    /\ total_starbases = 1
    /\ total_klingons = 10
    /\ quadrants[<<5, 2>>].starbases = 1
    /\ quadrants[<<3, 4>>].klingons = 3
    /\ quadrants[<<0, 0>>].klingons = 3

\* C24: at the start of a game the stardate is a multiple of 100 with
\* 2000 <= stardate < 4000, and time_limit is a whole number of days in
\* 25 .. 35
C24_StartDates ==
    Generated =>
        /\ stardate % (100 * TimeScale) = 0
        /\ 2000 * TimeScale <= stardate
        /\ stardate < 4000 * TimeScale
        /\ time_limit % TimeScale = 0
        /\ time_limit \in 25 * TimeScale .. 35 * TimeScale

----------------------------------------------------------------------------
(* game/enterprise.py: Enterprise.transfer_to_shields on its own, called  *)
(* with each amount of ShieldInputs on ships of every energy and shield   *)
(* level below.                                                           *)

TransferLevels == {0, 100, 200, 2900, 3000}

TransferInit ==
    \E en \in TransferLevels, sh \in TransferLevels, n \in ShieldInputs :
        /\ en + sh <= NewEnterprise.max_energy
        /\ quadrants = GeneratedQuadrants
        /\ total_klingons = SumKlingons(GeneratedQuadrants, 0)
        /\ total_starbases = SumStarbases(GeneratedQuadrants, 0)
        /\ initial_klingons = SumKlingons(GeneratedQuadrants, 0)
        /\ stardate \in Stardates
        /\ time_limit \in TimeLimits
        /\ enterprise = [NewEnterprise EXCEPT !.energy = en, !.shields = sh]
        /\ pc = "call"
        /\ cmd = NoCommand
        /\ args = <<n>>
        /\ result = NoResult
        /\ combat = NoCombat
        /\ atk = 1
        /\ turn = 0
        /\ lrs_data = <<>>
        /\ rng = 0

CallTransfer ==
    /\ pc = "call"
    /\ enterprise' = transfer_to_shields(enterprise, args[1])
    /\ result' = [NoResult EXCEPT
                     !.success = transfer_to_shields_returns(enterprise,
                                                             args[1])]
    /\ pc' = "returned"
    /\ UNCHANGED <<galaxy_vars, cmd, args, combat, atk, turn, lrs_data, rng>>

SpecTransfer == TransferInit /\ [][CallTransfer]_vars

\* C25: transfer_to_shields(n) moves n from energy to shields for n > 0
\* and fails without a change when n > energy; it moves |n| from shields
\* to energy for n < 0 and fails, returning false without a change, when
\* |n| > shields; a successful transfer leaves energy + shields unchanged
C25_TransferToShields ==
    [][(pc = "call" /\ pc' = "returned") =>
          LET n == args[1]
              e == enterprise
              e2 == enterprise'
              moved == /\ e2 = [e EXCEPT !.energy = @ - n, !.shields = @ + n]
                       /\ result'.success
              failed == e2 = e /\ ~result'.success
          IN  /\ (n > 0 /\ n <= e.energy) => moved
              /\ (n > 0 /\ n > e.energy) => failed
              /\ (n < 0 /\ -n <= e.shields) => moved
              /\ (n < 0 /\ -n > e.shields) => failed
              /\ result'.success =>
                     e2.energy + e2.shields = e.energy + e.shields]_vars

\* The repair of t days on a ship, in units of damage: one unit a day
\* when docked, a tenth of one otherwise
RepairOf(e, t) ==
    IF e.docked THEN (t * DamageScale) \div TimeScale
    ELSE (t * DamageScale) \div (10 * TimeScale)

\* C26: repair_systems(t) adds rate * t to every damaged system, the rate
\* 1.0 when docked and 0.1 otherwise; a system is reported as repaired
\* exactly when its value reaches or passes 0, and its value is then 0;
\* operational systems are untouched; and no damage value is ever positive
C26_RepairSystems ==
    /\ [](\A sys \in ShipSystem : enterprise.damage[sys] <= 0)
    /\ [][pc = "time" =>
              LET e == enterprise
                  t == result.time_used
                  reported == repair_systems_returns(e, t)
              IN  \A sys \in ShipSystem :
                      LET old == e.damage[sys]
                          new == enterprise'.damage[sys]
                      IN  /\ old >= 0 => (new = old /\ sys \notin reported)
                          /\ (old < 0 /\ old + RepairOf(e, t) >= 0)
                                 => (new = 0 /\ sys \in reported)
                          /\ (old < 0 /\ old + RepairOf(e, t) < 0)
                                 => /\ new = old + RepairOf(e, t)
                                    /\ sys \notin reported]_vars

\* C26's case: after a move that took time, a system stands between 0 and
\* the lightest damage a hit inflicts (0.5): it was damaged and has been
\* repaired in part, a second system operational
C26_Witness ==
    /\ cmd = "NAV"
    /\ result.time_used > 0
    /\ pc # "time"
    /\ \E sys \in ShipSystem :
           /\ enterprise.damage[sys] < 0
           /\ enterprise.damage[sys] > -(DamageScale \div 2)
    /\ \E sys \in ShipSystem : enterprise.damage[sys] = 0

\* Display.print_status_bar: the condition shown for the current state
ShownCondition == get_condition(enterprise, CurrentQuadrant.klingons)

\* C27: the condition is DOCKED whenever the ship is docked, also with
\* hostiles present or low energy; otherwise RED whenever the current
\* quadrant holds a hostile; otherwise YELLOW exactly when energy is
\* below a tenth of max_energy; otherwise GREEN
C27_Condition ==
    /\ enterprise.docked => ShownCondition = "DOCKED"
    /\ (~enterprise.docked /\ CurrentQuadrant.klingons >= 1)
           => ShownCondition = "RED"
    /\ (~enterprise.docked /\ CurrentQuadrant.klingons < 1)
           => /\ ShownCondition = "YELLOW"
                     <=> enterprise.energy * 10 < enterprise.max_energy
              /\ ShownCondition # "YELLOW" => ShownCondition = "GREEN"

\* C27's case: the screen is drawn for a docked ship with a hostile in
\* the quadrant
C27_Witness ==
    /\ pc = "refresh"
    /\ turn > 0
    /\ enterprise.docked
    /\ CurrentQuadrant.klingons > 0
    /\ ShownCondition = "DOCKED"

\* The tokens of the command map
CommandTokens == {"NAV", "SRS", "LRS", "PHA", "TOR", "SHE", "DAM", "COM", "XXX"}

\* C28: a command token outside the nine of the command map is rejected:
\* no handler runs (no result is produced, no randomness drawn), no time
\* elapses, no counter-attack follows (the loop goes straight to the
\* redraw), and galaxy and ship are unchanged, also by that redraw
C28_UnknownCommand ==
    /\ [][(Prompt /\ cmd' \notin CommandTokens)
              => /\ pc' = "refresh"
                 /\ UNCHANGED <<galaxy_vars, enterprise, result, combat,
                                rng>>]_vars
    /\ [][(pc = "refresh" /\ cmd \notin CommandTokens /\ cmd # NoCommand)
              => /\ pc' = "prompt"
                 /\ UNCHANGED <<galaxy_vars, enterprise>>]_vars

\* C28's case: an unknown token was entered as the second command, the
\* first one having raised the shields, and the screen is about to be
\* redrawn
C28_Witness ==
    /\ pc = "refresh"
    /\ cmd \notin CommandTokens
    /\ cmd # NoCommand
    /\ turn = 2
    /\ enterprise.shields > 0

\* The map and the lists of a quadrant the ship has just been placed in
\* describe one placement: as many KLINGON, STARBASE and STAR cells as
\* the quadrant counts, the lists naming exactly those cells, one entry
\* a cell, the ship's cell, and nothing else
FreshMap(q) ==
    /\ Len(q.klingon_ships) = q.klingons
    /\ Cardinality(CellsHolding(q, "KLINGON")) = q.klingons
    /\ {KlingonCell(q.klingon_ships[i]) : i \in 1 .. Len(q.klingon_ships)}
           = CellsHolding(q, "KLINGON")
    /\ Cardinality(CellsHolding(q, "STARBASE")) = q.starbases
    /\ CellsHolding(q, "STARBASE") =
           IF q.starbase_pos = None THEN {} ELSE {q.starbase_pos}
    /\ Len(q.star_positions) = q.stars
    /\ Cardinality(CellsHolding(q, "STAR")) = q.stars
    /\ {q.star_positions[i] : i \in 1 .. Len(q.star_positions)}
           = CellsHolding(q, "STAR")
    /\ Cardinality(CellsHolding(q, "ENTERPRISE")) = 1
    /\ Cardinality(CellsHolding(q, "EMPTY")) =
           SectorSize * SectorSize - q.klingons - q.starbases - q.stars - 1

\* The ship moves into another quadrant
EntersQuadrant ==
    /\ Executes("NAV")
    /\ result'.success
    /\ ShipQuad(enterprise') # ShipQuad(enterprise)

\* C29: every call of initialize_sector_map, the one of a new game and
\* the one on each entry of a quadrant, a quadrant entered before
\* included, yields a map with exactly quadrant.klingons KLINGON cells,
\* quadrant.starbases STARBASE cells and quadrant.stars STAR cells on
\* distinct cells, klingon_ships, starbase_pos and star_positions
\* describing exactly those cells with nothing left from an earlier
\* call, and leaves the quadrant's counts unchanged
C29_FreshSectorMap ==
    /\ [](NewGame => FreshMap(CurrentQuadrant))
    /\ [][EntersQuadrant =>
              LET dest == ShipQuad(enterprise')
              IN  /\ FreshMap(quadrants'[dest])
                  /\ quadrants'[dest].klingons = quadrants[dest].klingons
                  /\ quadrants'[dest].starbases = quadrants[dest].starbases
                  /\ quadrants'[dest].stars = quadrants[dest].stars]_vars

\* C29's case: the ship has left its first quadrant and come back, so
\* the map of that quadrant was initialised a second time
C29_Witness ==
    /\ turn = 2
    /\ cmd = "NAV"
    /\ result.success
    /\ ShipQuad(enterprise) \in StartQuadrants
    /\ \E quad \in Quads \ StartQuadrants : HasMap(quadrants[quad])
    /\ FreshMap(CurrentQuadrant)

\* C30: a hit the shields absorb entirely (shields >= D before the hit)
\* never destroys the ship: energy and the destroyed flag are as before
\* the hit, also when energy is 0 because all of it was moved into the
\* shields
C30_AbsorbedHitHarmless ==
    [][AttackStep =>
          LET D == KlingonDamage(enterprise,
                                 CurrentQuadrant.klingon_ships[atk],
                                 AttackFactor(rng))
          IN  enterprise.shields >= D
                  => /\ enterprise'.energy = enterprise.energy
                     /\ enterprise'.destroyed = enterprise.destroyed]_vars

\* C31: a NAV that aborts at the galactic barrier leaves the whole ship as
\* it was: a ship docked before the aborted NAV is docked after it, and
\* shields, torpedoes and the damage map are unchanged
C31_BarrierKeepsShip ==
    [][(Executes("NAV") /\ NavLeavesGalaxy)
           => /\ enterprise'.docked = enterprise.docked
              /\ enterprise'.shields = enterprise.shields
              /\ enterprise'.torpedoes = enterprise.torpedoes
              /\ enterprise'.damage = enterprise.damage
              /\ enterprise' = enterprise]_vars

\* The unit step of a cardinal course, in rows and columns
CardinalStep(course10) ==
    IF course10 = 10 THEN <<0, 1>>
    ELSE IF course10 = 30 THEN <<-1, 0>>
    ELSE IF course10 = 50 THEN <<0, -1>>
    ELSE <<1, 0>>

\* A move along a cardinal course is carried out
CardinalMove ==
    /\ Executes("NAV")
    /\ result'.success
    /\ Len(args') = 2
    /\ args'[2] > 0
    /\ args'[1] \in {10, 30, 50, 70}

\* C32: a successful NAV along a cardinal course of n = floor(warp * 8)
\* sectors changes the ship's galaxy-absolute coordinate (8 * quadrant +
\* sector) by exactly n along the course and leaves the other axis alone,
\* unless the destination cell is occupied: then the quadrant is still
\* the computed one and the ship stands on another cell of it
C32_CardinalMove ==
    [][CardinalMove =>
          LET n == (args'[2] * 8) \div WarpScale
              d == CardinalStep(args'[1])
              row == SectorSize * enterprise.quadrant_row
                         + enterprise.sector_row + n * d[1]
              col == SectorSize * enterprise.quadrant_col
                         + enterprise.sector_col + n * d[2]
              quad == <<row \div SectorSize, col \div SectorSize>>
              cell == <<row % SectorSize, col % SectorSize>>
          IN  /\ ShipQuad(enterprise') = quad
              /\ quadrants'[quad].sector_map[ShipCell(enterprise')]
                     = "ENTERPRISE"
              /\ ShipCell(enterprise') # cell
                     => quadrants'[quad].sector_map[cell]
                            \in {"KLINGON", "STARBASE", "STAR"}]_vars

\* C32's case: eight sectors east from the first quadrant took the ship
\* into the next quadrant, to the column it left
C32_Witness ==
    /\ cmd = "NAV"
    /\ result.success
    /\ args = <<10, 1000>>
    /\ turn = 1
    /\ ShipQuad(enterprise) = <<0, 1>>
    /\ ShipCell(enterprise) \in StartSectors

\* The stepped path of the NAV being executed
NavPathTaken ==
    NavPath(NavStart(enterprise), StepVector(args'[1]),
            SectorsToMove(args'[2]))

\* A move that crosses no quadrant boundary and puts the ship on the
\* cell computed for it, which was empty
MoveInsideQuadrant ==
    /\ Executes("NAV")
    /\ result'.success
    /\ Len(args') = 2
    /\ args'[2] > 0
    /\ ~NavPathTaken.crossed
    /\ ShipCell(enterprise') = FinalSector(NavPathTaken)

\* C33: a successful NAV that crosses no quadrant boundary and lands on an
\* empty cell ends on the end point of the stepped path rounded to the
\* nearest sector, never wrapped around the quadrant; on course 8 the
\* final row and column are each >= the starting ones
C33_NoWrapInsideQuadrant ==
    [][MoveInsideQuadrant =>
          /\ ShipCell(enterprise') =
                 <<RoundFix(NavPathTaken.row, PosScale),
                   RoundFix(NavPathTaken.col, PosScale)>>
          /\ args'[1] = 80 =>
                 /\ enterprise'.sector_row >= enterprise.sector_row
                 /\ enterprise'.sector_col >= enterprise.sector_col]_vars

\* C34: at every turn boundary the sector map of the ship's quadrant has
\* exactly one ENTERPRISE cell, the ship's recorded sector, no other
\* quadrant's map has an ENTERPRISE cell, and the ship does not stand on
\* a cell of a hostile, a starbase or a star
C34_OneEnterpriseCell ==
    TurnBoundary =>
        /\ HasMap(CurrentQuadrant)
        /\ CellsHolding(CurrentQuadrant, "ENTERPRISE") = {ShipCell(enterprise)}
        /\ \A quad \in Quads \ {ShipQuad(enterprise)} :
               HasMap(quadrants[quad])
                   => CellsHolding(quadrants[quad], "ENTERPRISE") = {}
        /\ \A i \in 1 .. Len(CurrentQuadrant.klingon_ships) :
               KlingonCell(CurrentQuadrant.klingon_ships[i])
                   # ShipCell(enterprise)
        /\ CurrentQuadrant.starbase_pos # ShipCell(enterprise)
        /\ \A i \in 1 .. Len(CurrentQuadrant.star_positions) :
               CurrentQuadrant.star_positions[i] # ShipCell(enterprise)

\* C34's case: after two commands the ship is in another quadrant than
\* the one it started in, and the quadrant it left keeps its map
C34_Witness ==
    /\ TurnBoundary
    /\ turn = 2
    /\ ShipQuad(enterprise) \notin StartQuadrants
    /\ \E quad \in StartQuadrants : HasMap(quadrants[quad])
    /\ CurrentQuadrant.sector_map[ShipCell(enterprise)] = "ENTERPRISE"

\* C35: in every reachable state shields >= 0, energy <= max_energy and
\* energy + shields <= max_energy: transfers, dockings, moves and hits
\* never create energy beyond the ship's maximum
C35_EnergyBounded ==
    /\ enterprise.shields >= 0
    /\ enterprise.energy <= enterprise.max_energy
    /\ enterprise.energy + enterprise.shields <= enterprise.max_energy

\* C35's case: a docked ship, refilled by the docking, has since moved
\* energy into its shields and holds exactly the maximum in both
C35_Witness ==
    /\ enterprise.docked
    /\ enterprise.shields > 0
    /\ enterprise.energy > 0
    /\ enterprise.energy + enterprise.shields = enterprise.max_energy

\* C36: in every reachable state a docked ship has a starbase of its
\* quadrant within Chebyshev distance 1 of its sector; the ship does not
\* stay docked once its own torpedo has destroyed that starbase
C36_DockedAtStarbase ==
    enterprise.docked =>
        /\ CurrentQuadrant.starbases > 0
        /\ CurrentQuadrant.starbase_pos # None
        /\ Abs(enterprise.sector_row - CurrentQuadrant.starbase_pos[1]) <= 1
        /\ Abs(enterprise.sector_col - CurrentQuadrant.starbase_pos[2]) <= 1

\* The days gone since the game started
TimeElapsed == stardate - (CHOOSE d \in Stardates : TRUE)

\* C37: time_remaining never increases, and once the time elapsed since
\* the start of the game has reached time_limit, is_time_up holds at the
\* turn boundary, also after a slow NAV (warp 0.01 uses 100 days)
C37_TimeRunsOut ==
    /\ [][time_remaining' <= time_remaining]_vars
    /\ []((TurnBoundary /\ TimeElapsed >= time_limit) => is_time_up)

----------------------------------------------------------------------------
(* Play of any length by a ship whose warp engines are out.  The game    *)
(* starts as in Init; the ship has fired one torpedo that missed and the  *)
(* hostiles of its quadrant have answered with one volley, which left     *)
(* the warp engines damaged.                                              *)

\* CommandHandler.klingon_attack: the ship after the shots of the hostiles
\* from the i-th on, r being the state of the generator
RECURSIVE Volley(_, _, _, _)
Volley(e, ships, r, i) ==
    IF i > Len(ships) \/ e.destroyed THEN e
    ELSE Volley(apply_damage(e, KlingonDamage(e, ships[i], AttackFactor(r)),
                             SystemRoll(r)),
                ships, AfterDraws(r, ShotDraws), i + 1)

\* The galaxy of a new game, and the galaxy of EndgameInit
StrandedGalaxies ==
    {[quadrants |-> GeneratedQuadrants, days |-> 0],
     [quadrants |-> EndgameQuadrants, days |-> EndgameDays]}

StrandedInit ==
    \E sq \in StartQuadrants, sc \in StartSectors, s \in Seeds,
       r \in 0 .. (StreamPeriod - 1), g \in StrandedGalaxies :
        LET q0 == initialize_sector_map(g.quadrants[sq], s)
            cell == place_enterprise_cell(q0, sc, s)
            q1 == [place_enterprise(q0, sc, s) EXCEPT !.scanned = TRUE]
            e0 == [set_position(NewEnterprise, sq, cell) EXCEPT
                      !.torpedoes = @ - 1]
            e1 == Volley(e0, q1.klingon_ships, r, 1)
        IN  /\ ~can_warp(e1)
            /\ ~e1.destroyed
            /\ quadrants = [g.quadrants EXCEPT ![sq] = q1]
            /\ total_klingons = SumKlingons(g.quadrants, 0)
            /\ total_starbases = SumStarbases(GeneratedQuadrants, 0)
            /\ initial_klingons = SumKlingons(GeneratedQuadrants, 0)
            /\ stardate \in {d + g.days : d \in Stardates}
            /\ time_limit \in TimeLimits
            /\ enterprise = e1
            /\ pc = "refresh"
            /\ cmd = NoCommand
            /\ args = <<>>
            /\ result = NoResult
            /\ combat = NoCombat
            /\ atk = 1
            /\ turn = -1
            /\ lrs_data = <<>>
            /\ rng = AfterDraws(r, ShotDraws * Len(q1.klingon_ships))

\* game_loop as this ship plays it, with NAV, TOR, DAM and XXX for commands.
\* No command of this ship uses time, so that the time step is never
\* reached, and its hostiles fire after every attack that is triggered.
NextStranded ==
    \/ Refresh
    \/ GameOver
    \/ Nav
    \/ Tor
    \/ Dam
    \/ Xxx
    \/ KlingonFires

\* "while True": the loop reads the next command as long as the game lasts
SpecStranded ==
    StrandedInit /\ [][NextStranded]_vars /\ WF_vars(NextStranded)

\* C38: damage is always eventually repaired under continued play: from
\* every turn boundary of a game that goes on where a system (the warp
\* engines in particular) is damaged, the system becomes operational again
\* or the game ends, so that the ship is never left where no command uses
\* time or repairs it
C38_DamageRepaired ==
    \A sys \in ShipSystem :
        (TurnBoundary /\ ~Terminal /\ enterprise.damage[sys] < 0)
            ~> (enterprise.damage[sys] >= 0 \/ pc = "over")

\* The energy of the hostiles listed in a quadrant, added up
RECURSIVE HostileEnergy(_, _)
HostileEnergy(ships, i) ==
    IF i > Len(ships) THEN 0 ELSE ships[i].energy + HostileEnergy(ships, i + 1)

\* C39: damage dealt to a surviving hostile is cumulative for the rest of the
\* game: the energy of the hostiles of a quadrant never increases, also when
\* the ship leaves the quadrant and enters it again
C39_HostileEnergyKept ==
    [][\A quad \in Quads :
          quadrants[quad].klingon_ships # <<>>
              => HostileEnergy(quadrants'[quad].klingon_ships, 1)
                     <= HostileEnergy(quadrants[quad].klingon_ships, 1)]_vars

====
